---- MODULE Spec2Model ----
(***************************************************************************)
(* Model of llama_pypi_scraper.py: the retrying fetch (fetch_with_retry),  *)
(* the per-package pipeline (fetch_package_info) and the bulk run over a   *)
(* thread pool (bulk_analyze).                                             *)
(*                                                                         *)
(* Time is counted in ticks of half a second, so that the pacing delay     *)
(* random.uniform(0.5, 2.0) is sampled at 1..4 ticks and one second of     *)
(* REQUEST_RETRY_DELAY is 2 ticks.                                         *)
(***************************************************************************)
EXTENDS Integers, Sequences, FiniteSets, TLC

\* ---------------------------------------------------------------- bounds
\* longest list of package names handed to bulk_analyze
MaxPkgs == 2

\* longest list of package names of a run that fills the thread pool
MaxPool == 6

\* most entries of project_urls, and of requires_dist, in a primary document
MaxLinks == 2
MaxReqs == 2

\* most keys of the release map of a primary document
MaxReleases == 3

\* most fetches through the browser a pool thread makes
MaxBrowserCalls == 2

\* ------------------------------------------------------ program constants
MAX_WORKERS == 5
REQUEST_RETRIES == 3
REQUEST_RETRY_DELAY == 1

\* status_forcelist of the transport retry strategy: the retryable statuses
RetryableStatuses == {429, 500, 502, 503, 504}

\* what one session.get / session.post can produce
AttemptOutcomes ==
    \* HTTP statuses a server may answer with (a sample around the retryable set)
    {[exc |-> "none", status |-> s] : s \in ({200, 404} \cup RetryableStatuses)}
    \* exceptions the session may raise instead of answering; the first is a
    \* requests.RequestException, the second (cloudscraper's) is not
    \cup {[exc |-> e, status |-> 0] : e \in ({"ConnectionError", "CloudflareException"})}

\* the outcomes of the attempts of one fetch, as the pipeline's run meets them
BulkOutcomes ==
    {[exc |-> "none", status |-> 200], [exc |-> "none", status |-> 503],
     [exc |-> "CloudflareException", status |-> 0]}

\* isinstance(e, requests.RequestException), for the exceptions of the model
IsRequestException(e) == e \in {"HTTPError", "ConnectionError"}

\* response.raise_for_status(): the exception raised for a status, or "none"
raise_for_status(status) == IF status >= 400 THEN "HTTPError" ELSE "none"

Lower(m) == IF m = "GET" THEN "get" ELSE m

\* identity profiles of the user-agent rotator
Profiles == {"ua1", "ua2"}

\* BackoffDelay counting the attempts that are left instead of those made
BackoffDelayReversed(attempt) ==
    2 * REQUEST_RETRY_DELAY * (REQUEST_RETRIES - 1 - attempt)

\* time.sleep(REQUEST_RETRY_DELAY * (attempt + 1)), in ticks
BackoffDelay(attempt) == 2 * REQUEST_RETRY_DELAY * (attempt + 1)

\* threads that call fetch_with_retry on the one shared scraper
Fetchers == {"t1"}

NoResult == [kind |-> "pending", status |-> 0, exc |-> "none"]
Response(status) == [kind |-> "response", status |-> status, exc |-> "none"]
NoneResult == [kind |-> "none", status |-> 0, exc |-> "none"]
Raised(e) == [kind |-> "raise", status |-> 0, exc |-> e]

VARIABLES
    headers,    \* session.headers['User-Agent'] of the shared session
    browser,    \* self.browser is configured (use_browser_automation)
    fs,         \* per thread: the activation of fetch_with_retry
    package_names,            \* the argument of bulk_analyze
    include_source_analysis,  \* the argument of bulk_analyze
    github_client,            \* self.github_client is configured
    task,       \* per submitted item: the future and its pipeline
    results,    \* the list bulk_analyze returns
    progress,   \* completed count of the progress bar
    faulty,     \* the sources that may misbehave in this run (environment)
    bulkPc,     \* position of the thread that runs bulk_analyze
    pypi,       \* one call of PackageInfo.from_pypi_json: its data and fields
    hosting,    \* one call of fetch_github_stats: its inputs and position
    driver,     \* self.browser.driver, the browser the pool threads share
    use_cloudscraper  \* the session is cloudscraper's; else requests.Session
                      \* with the retrying transport adapter mounted

bulkVars == <<package_names, include_source_analysis, github_client, task,
              results, progress, faulty, bulkPc, pypi,
              hosting, driver, use_cloudscraper>>
vars == <<headers, browser, fs, package_names, include_source_analysis,
          github_client, task, results, progress, faulty, bulkPc, pypi,
              hosting, driver, use_cloudscraper>>

\* from_pypi_json is not being looked at in detail
NoDocument == [pc |-> "off"]

\* fetch_github_stats is not being looked at in detail
NoHosting == [pc |-> "off"]

\* the browser is not being looked at in detail
NoDriver == [pc |-> "off"]

IdleFetch ==
    [pc |-> "idle", method |-> "get", use_browser |-> FALSE, attempt |-> 0,
     outs |-> <<>>, wait |-> 0, gaps |-> <<>>, backoffs |-> <<>>,
     result |-> NoResult, drawn |-> "none", pace |-> 0, sent |-> "none",
     page |-> "unasked", body |-> "none", requests |-> 0]

\* no bulk run: the scraper is constructed and bulk_analyze is not called
NoBulk ==
    /\ package_names = <<>>
    /\ include_source_analysis = FALSE
    /\ github_client = FALSE
    /\ task = <<>>
    /\ results = <<>>
    /\ progress = 0
    /\ faulty = {}
    /\ bulkPc = "idle"

InitFetch ==
    /\ headers \in Profiles
    /\ browser \in BOOLEAN
    /\ fs = [t \in Fetchers |-> IdleFetch]
    /\ NoBulk
    /\ pypi = NoDocument
    /\ hosting = NoHosting
    /\ driver = NoDriver
    /\ use_cloudscraper = TRUE

\* fetch_with_retry is entered: the browser path when asked for and configured
Call(t) ==
    /\ fs[t].pc = "idle"
    \* method strings a caller may pass, and str.lower() on them
    /\ \E m \in {"get", "GET", "post", "put"}, ub \in BOOLEAN :
         fs' = [fs EXCEPT ![t] = [@ EXCEPT !.method = m, !.use_browser = ub,
                    !.pc = IF ub /\ browser THEN "browser" ELSE "loop"]]
    /\ UNCHANGED <<headers, browser, bulkVars>>

Truthy(page) == page \notin {"", "None"}

\* BrowserResult with the mock response built but not returned
BrowserResultNotReturned(page) == NoResult

\* BrowserResult with None returned when the browser gave no page
BrowserResultNoneOnFailure(page) ==
    IF Truthy(page) THEN Response(200) ELSE NoneResult

\* the result of the browser path: a mock response, or fall through
BrowserResult(page) == IF Truthy(page) THEN Response(200) ELSE NoResult

\* page_source = self.browser.fetch_with_browser(url); if page_source: return
\* the mock response whose text is page_source
BrowserFetch(t) ==
    /\ fs[t].pc = "browser"
    \* page sources fetch_with_browser can return; "" and None are both falsy
    /\ \E page \in {"<html>", "", "None"} :
         LET r == BrowserResult(page)
         IN fs' = [fs EXCEPT ![t] = [@ EXCEPT
                    !.page = page,
                    !.result = r,
                    !.body = IF r.kind = "response" THEN page ELSE @,
                    !.pc = IF r.kind = "pending" THEN "loop" ELSE "returned"]]
    /\ UNCHANGED <<headers, browser, bulkVars>>

\* the exception one attempt ends with ("none": the response is returned)
AttemptException(o) ==
    IF o.exc # "none" THEN o.exc ELSE raise_for_status(o.status)

\* AfterAttempt with the return of the response left to the last iteration
AfterAttemptNoEarlyReturn(attempt, e) ==
    IF ~IsRequestException(e) /\ e # "none" THEN "propagate"
    ELSE IF attempt < REQUEST_RETRIES - 1 THEN "retry"
    ELSE IF e = "none" THEN "return" ELSE "none"

\* AfterAttempt with the last failure raised again instead of returning None
AfterAttemptRaisesLast(attempt, e) ==
    IF e = "none" THEN "return"
    ELSE IF ~IsRequestException(e) THEN "propagate"
    ELSE IF attempt < REQUEST_RETRIES - 1 THEN "retry"
    ELSE "propagate"

\* what follows one attempt: the response is returned ("return"), the except
\* clause retries ("retry") or gives up with None ("none"), or the exception
\* is no RequestException and leaves fetch_with_retry ("propagate")
AfterAttempt(attempt, e) ==
    IF e = "none" THEN "return"
    ELSE IF ~IsRequestException(e) THEN "propagate"
    ELSE IF attempt < REQUEST_RETRIES - 1 THEN "retry"
    ELSE "none"

\* head of one iteration of `for attempt in range(REQUEST_RETRIES)`
LoopIter(t) ==
    /\ fs[t].pc = "loop"
    /\ fs' = [fs EXCEPT ![t] =
                IF fs[t].attempt >= REQUEST_RETRIES
                THEN [@ EXCEPT !.pc = "returned", !.result = NoneResult]
                ELSE IF Lower(fs[t].method) \in {"get", "post"}
                THEN [@ EXCEPT !.pc = "get_headers"]
                ELSE [@ EXCEPT !.pc = "raised", !.result = Raised("ValueError"),
                               !.outs = Append(@, [exc |-> "ValueError", status |-> 0])]]
    /\ UNCHANGED <<headers, browser, bulkVars>>

\* AntiDetectionRequestSession.get/post: self.update_headers(); `drawn` is
\* the profile get_random_user_agent returned to this call
SessionUpdateHeaders(t) ==
    /\ fs[t].pc = "get_headers"
    /\ \E p \in Profiles :
         /\ headers' = p
         /\ fs' = [fs EXCEPT ![t] = [@ EXCEPT !.pc = "get_sleep", !.drawn = p]]
    /\ UNCHANGED <<browser, bulkVars>>

\* pacing_delay that leaves the first attempt of a fetch unpaced
pacing_delayRetriesOnly(attempt, d) == IF attempt = 0 THEN 0 ELSE d

\* the time get/post sleeps before attempt `attempt`, d being the value
\* random.uniform(0.5, 2.0) returned
pacing_delay(attempt, d) == d

\* AntiDetectionRequestSession.get/post: time.sleep(random.uniform(0.5, 2.0))
SessionSleep(t) ==
    /\ fs[t].pc = "get_sleep"
    \* random.uniform(0.5, 2.0) in ticks of half a second
    /\ \E d \in {1, 2, 3, 4} :
         fs' = [fs EXCEPT ![t] = [@ EXCEPT
                    !.pc = "get_send",
                    !.wait = @ + pacing_delay(fs[t].attempt, d),
                    !.pace = pacing_delay(fs[t].attempt, d)]]
    /\ UNCHANGED <<headers, browser, bulkVars>>

\* what the server may answer an attempt with: anything when one fetch is
\* looked at alone, the answers of the bulk run's environment when the pool
\* threads of a bulk run fetch side by side
SessionOutcomes ==
    {o \in (IF bulkPc = "idle" THEN AttemptOutcomes ELSE BulkOutcomes) :
        use_cloudscraper \/ o.exc # "CloudflareException"}

\* how many times the transport adapter sent the request again within one
\* session.get/post that ended with o. cloudscraper's session mounts no retry
\* policy. Retry(total=REQUEST_RETRIES, status_forcelist=...) sends a request
\* again after a connection error or a status of the list, up to total
\* times: a call that still ends with such a failure used all of them, any
\* other call came after none or some
AdapterResends(o) ==
    IF use_cloudscraper THEN {0}
    ELSE IF o.exc = "ConnectionError"
            \/ (o.exc = "none" /\ o.status \in RetryableStatuses)
    THEN {REQUEST_RETRIES}
    ELSE 0..REQUEST_RETRIES

\* the request is sent; response.raise_for_status(); return or except clause
SessionSend(t) ==
    /\ fs[t].pc = "get_send"
    /\ \E o \in SessionOutcomes : \E resends \in AdapterResends(o) :
         LET e == AttemptException(o)
             next == AfterAttempt(fs[t].attempt, e)
         IN fs' = [fs EXCEPT ![t] = [@ EXCEPT
                !.outs = Append(@, o),
                !.requests = @ + 1 + resends,
                !.sent = headers,
                !.body = IF next = "return" THEN "http body" ELSE @,
                !.gaps = IF fs[t].attempt > 0 THEN Append(@, fs[t].wait) ELSE @,
                !.wait = 0,
                !.pc = CASE next = "return" -> "returned"
                         [] next = "none" -> "returned"
                         [] next = "retry" -> "backoff"
                         [] OTHER -> "raised",
                !.result = CASE next = "return" -> Response(o.status)
                             [] next = "none" -> NoneResult
                             [] next = "retry" -> NoResult
                             [] OTHER -> Raised(e)]]
    /\ UNCHANGED <<headers, browser, bulkVars>>

\* time.sleep(REQUEST_RETRY_DELAY * (attempt + 1)); self.session.update_headers()
RetryBackoff(t) ==
    /\ fs[t].pc = "backoff"
    /\ \E p \in Profiles : headers' = p
    /\ fs' = [fs EXCEPT ![t] = [@ EXCEPT
                !.wait = @ + BackoffDelay(fs[t].attempt),
                !.backoffs = Append(@, BackoffDelay(fs[t].attempt)),
                !.attempt = @ + 1,
                !.drawn = "none", !.pace = 0, !.sent = "none",
                !.pc = "loop"]]
    /\ UNCHANGED <<browser, bulkVars>>

NextFetch ==
    \E t \in Fetchers :
        \/ Call(t)
        \/ BrowserFetch(t)
        \/ LoopIter(t)
        \/ SessionUpdateHeaders(t)
        \/ SessionSleep(t)
        \/ SessionSend(t)
        \/ RetryBackoff(t)

SpecFetch == InitFetch /\ [][NextFetch]_vars

\* one fetch_with_retry(url) or fetch_with_retry(url, method="post") on the
\* lightweight path, with either kind of session
InitAdapter ==
    /\ headers = "ua1"
    /\ browser = FALSE
    /\ fs \in {[t \in Fetchers |-> [IdleFetch EXCEPT !.pc = "loop", !.method = m]] :
                m \in {"get", "post"}}
    /\ NoBulk
    /\ pypi = NoDocument
    /\ hosting = NoHosting
    /\ driver = NoDriver
    /\ use_cloudscraper \in BOOLEAN

NextAdapter ==
    \E t \in Fetchers :
        \/ LoopIter(t)
        \/ SessionUpdateHeaders(t)
        \/ SessionSleep(t)
        \/ SessionSend(t)
        \/ RetryBackoff(t)

SpecAdapter == InitAdapter /\ [][NextAdapter]_vars

\* two pool threads of a bulk run, each inside a fetch_with_retry(url) of its
\* pipeline, on the one session of the scraper they share
PoolFetchers == {"w1", "w2"}

InitWorkers ==
    /\ headers = "ua1"
    /\ browser = FALSE
    /\ fs = [t \in PoolFetchers |-> [IdleFetch EXCEPT !.pc = "loop"]]
    /\ package_names = <<>>
    /\ include_source_analysis = FALSE
    /\ github_client = FALSE
    /\ task = <<>>
    /\ results = <<>>
    /\ progress = 0
    /\ faulty = {}
    /\ bulkPc = "workers"
    /\ pypi = NoDocument
    /\ hosting = NoHosting
    /\ driver = NoDriver
    /\ use_cloudscraper = TRUE

NextWorkers ==
    \E t \in PoolFetchers :
        \/ LoopIter(t)
        \/ SessionUpdateHeaders(t)
        \/ SessionSleep(t)
        \/ SessionSend(t)
        \/ RetryBackoff(t)

SpecWorkers == InitWorkers /\ [][NextWorkers]_vars

\* ------------------------------------------------------------------------
\* Python strings and lists
\* ------------------------------------------------------------------------

\* a Python string is the tuple of its characters; None is kept apart from
\* every string
PyNone == <<"None">>

\* str.lower(), for the capital letters the documents of the model hold
lower_char(c) ==
    CASE c = "A" -> "a" [] c = "B" -> "b" [] c = "C" -> "c" [] c = "D" -> "d"
      [] c = "E" -> "e" [] c = "F" -> "f" [] c = "G" -> "g" [] c = "H" -> "h"
      [] c = "I" -> "i" [] c = "J" -> "j" [] c = "K" -> "k" [] c = "L" -> "l"
      [] c = "M" -> "m" [] c = "N" -> "n" [] c = "O" -> "o" [] c = "P" -> "p"
      [] c = "Q" -> "q" [] c = "R" -> "r" [] c = "S" -> "s" [] c = "T" -> "t"
      [] c = "U" -> "u" [] c = "V" -> "v" [] c = "W" -> "w" [] c = "X" -> "x"
      [] c = "Y" -> "y" [] c = "Z" -> "z"
      [] OTHER -> c
str_lower(s) == [i \in 1..Len(s) |-> lower_char(s[i])]

\* pat in s
str_in(pat, s) ==
    \E i \in 0..(Len(s) - Len(pat)) : SubSeq(s, i + 1, i + Len(pat)) = pat

\* s.find(c) + 1: the place of the first c in s, 0 when there is none
str_find(c, s) ==
    IF \E i \in 1..Len(s) : s[i] = c
    THEN CHOOSE i \in 1..Len(s) : s[i] = c /\ \A j \in 1..(i - 1) : s[j] # c
    ELSE 0

\* s.split(c)[0] and s.split(c, 1)[1]
str_before(s, c) == IF str_find(c, s) = 0 THEN s ELSE SubSeq(s, 1, str_find(c, s) - 1)
str_after(s, c) == SubSeq(s, str_find(c, s) + 1, Len(s))

\* s.strip()
str_strip(s) ==
    LET inked == {i \in 1..Len(s) : s[i] # " "}
    IN IF inked = {} THEN <<>>
       ELSE SubSeq(s, CHOOSE i \in inked : \A j \in inked : i <= j,
                      CHOOSE i \in inked : \A j \in inked : j <= i)

\* [f(x) for x in seq]
MapSeq(f(_), seq) == [i \in 1..Len(seq) |-> f(seq[i])]

\* str.isdigit() for one character, and int() of a string of digits
is_digit(c) == c \in {"0", "1", "2", "3", "4", "5", "6", "7", "8", "9"}
digit_value(c) ==
    CASE c = "0" -> 0 [] c = "1" -> 1 [] c = "2" -> 2 [] c = "3" -> 3
      [] c = "4" -> 4 [] c = "5" -> 5 [] c = "6" -> 6 [] c = "7" -> 7
      [] c = "8" -> 8 [] c = "9" -> 9
RECURSIVE to_int(_)
to_int(s) ==
    IF s = <<>> THEN 0
    ELSE 10 * to_int(SubSeq(s, 1, Len(s) - 1)) + digit_value(s[Len(s)])
str_isdigit(p) == p # <<>> /\ \A i \in 1..Len(p) : is_digit(p[i])

\* ------------------------------------------------------------------------
\* The pipeline of one package and the bulk run
\* ------------------------------------------------------------------------

\* distinct package names (main() removes duplicates before bulk_analyze)
AllNames == <<"examplepkg", "widget", "gadget", "gizmo">>

\* a key of the statistics dict: missing, or holding a number or a text
NoNumber == [set |-> FALSE, v |-> 0]
NoText == [set |-> FALSE, v |-> <<>>]
Holds(v) == [set |-> TRUE, v |-> v]

\* the empty dict {} of github_stats
EmptyStats ==
    [stars |-> NoNumber, forks |-> NoNumber, language |-> NoText,
     watchers |-> NoNumber]

\* PackageInfo.__init__: the record of a package before anything is fetched
PackageInfo(name) ==
    [name |-> name, version |-> "N/A", license |-> "", downloads |-> "{}",
     readme_content |-> "", github_url |-> "None", github_stats |-> EmptyStats,
     source_analysis |-> "{}", error |-> "None"]

\* the sources of a run: one per stage, and the source-analysis collaborator
FaultPoints == {"primary", "license", "downloads", "readme", "github", "analysis"}

\* the for loop of fetch_with_retry from `attempt` on, run to its end
RECURSIVE RunAttempts(_, _)
RunAttempts(attempt, outs) ==
    IF attempt >= REQUEST_RETRIES THEN NoneResult
    ELSE LET e == AttemptException(outs[attempt + 1])
             next == AfterAttempt(attempt, e)
         IN CASE next = "return" -> Response(outs[attempt + 1].status)
              [] next = "none" -> NoneResult
              [] next = "retry" -> RunAttempts(attempt + 1, outs)
              [] OTHER -> Raised(e)

\* fetch_with_retry(url, use_browser=...) as one call: what it returns
fetch_with_retry(use_browser, page, outs) ==
    IF use_browser /\ browser /\ Truthy(page)
    THEN BrowserResult(page)
    ELSE RunAttempts(0, outs)

\* what the fetch of a stage can return in this run: the environment hands
\* anything to a stage whose source may misbehave, the good answer otherwise
FetchReturns(stage, use_browser) ==
    {fetch_with_retry(use_browser, page, outs) :
        page \in (IF stage \in faulty THEN {"<html>", "None"} ELSE {"<html>"}),
        outs \in (IF stage \in faulty THEN [1..REQUEST_RETRIES -> BulkOutcomes]
                  ELSE {[k \in 1..REQUEST_RETRIES |-> [exc |-> "none", status |-> 200]]})}

\* the links at github.com a document may resolve to: one that names owner
\* and repository, one that names the owner alone
RepositoryUrl == "https://github.com/acme/widget"
OwnerUrl == "https://github.com/acme"

\* the document the index holds for a package: a matter of the package, with
\* and without a declared license and repository link
Catalog(name) ==
    [kind |-> "full",
     license |-> IF name \in {AllNames[1], AllNames[4]} THEN "MIT" ELSE "UNKNOWN",
     github |-> IF name = AllNames[1] THEN RepositoryUrl
                ELSE IF name = AllNames[3] THEN OwnerUrl
                ELSE "None"]

\* the documents a primary fetch of `name` may be answered with in this run
DocsFor(name) ==
    IF "primary" \in faulty
    \* the primary documents pypi.org may answer with
    THEN {Catalog(name)} \cup {d \in ({[kind |-> "full", license |-> l, github |-> g] : l \in {"MIT", "UNKNOWN"}, g \in {"None", RepositoryUrl, OwnerUrl}} \cup {[kind |-> k, license |-> "MIT", github |-> "None"] : k \in {"no_version", "bad_fields", "bad_json"}}) : d.kind # "full"}
    ELSE {Catalog(name)}

\* PackageInfo.from_pypi_json up to the point where a malformed field raises
from_pypi_json(package, doc) ==
    [package EXCEPT
        !.version = IF doc.kind = "no_version" THEN "N/A" ELSE "2.0.0",
        !.license = doc.license,
        !.github_url = IF doc.kind # "bad_fields" THEN doc.github ELSE "None"]

\* what a fetched page or payload holds for the stage that reads it
ContentsFor(stage) == IF stage \in faulty THEN {"good", "absent", "broken"} ELSE {"good"}

\* StageOrder with the statistics fetch moved before the license fetch
StageOrderSwapped == <<"primary", "downloads", "license", "readme", "github">>

\* the stages of fetch_package_info, in the order of its statements
StageOrder == <<"primary", "license", "downloads", "readme", "github">>

\* the statement that follows stage `stage` in fetch_package_info
NextStage(stage, package) ==
    CASE stage = StageOrder[1] -> StageOrder[2]
      [] stage = StageOrder[2] -> StageOrder[3]
      [] stage = StageOrder[3] -> StageOrder[4]
      [] stage = StageOrder[4] ->
            IF package.github_url # "None" THEN StageOrder[5] ELSE "fetched"
      [] OTHER -> "fetched"

NewTask(name) ==
    [pc |-> "queued", package |-> PackageInfo(name), exc |-> "none",
     trace |-> <<>>, calls |-> {}, failed |-> {}, primary |-> "pending",
     doc |-> "none", parsed |-> FALSE, fault |-> "none", collected |-> FALSE,
     worker |-> 0]

Positions == DOMAIN task

Init ==
    /\ headers = "ua1"
    /\ browser \in BOOLEAN
    /\ fs = [t \in Fetchers |-> [IdleFetch EXCEPT !.pc = "off"]]
    /\ package_names \in {SubSeq(AllNames, 1, n) : n \in 0..MaxPkgs}
    /\ include_source_analysis \in BOOLEAN
    /\ github_client \in BOOLEAN
    /\ task = <<>>
    /\ results = <<>>
    /\ progress = 0
    \* the runs of the bulk specification: at most one kind of source misbehaves,
    \* or the primary source and the collaborator do
    /\ faulty \in ({{}} \cup {{s} : s \in FaultPoints} \cup {{"primary", "analysis"}})
    /\ bulkPc = "submit"
    /\ pypi = NoDocument
    /\ hosting = NoHosting
    /\ driver = NoDriver
    /\ use_cloudscraper = TRUE

\* executor.submit(self._analyze_single_package, package_name, ...)
Submit ==
    /\ bulkPc = "submit"
    /\ IF Len(task) < Len(package_names)
       THEN /\ task' = Append(task, NewTask(package_names[Len(task) + 1]))
            /\ UNCHANGED bulkPc
       ELSE /\ bulkPc' = "collect"
            /\ UNCHANGED task
    /\ UNCHANGED <<headers, browser, fs, package_names, include_source_analysis,
                   github_client, results, progress, faulty, pypi,
                   hosting, driver, use_cloudscraper>>

\* what a step of a pool thread leaves alone
Others == <<headers, browser, fs, package_names, include_source_analysis,
            github_client, results, progress, faulty, bulkPc, pypi,
              hosting, driver, use_cloudscraper>>

Running == {i \in Positions : task[i].pc \notin {"queued", "done"}}

\* a pool built with one thread more than MAX_WORKERS
WorkersOneMore == 1..(MAX_WORKERS + 1)

\* the threads of ThreadPoolExecutor(max_workers=MAX_WORKERS)
Workers == 1..MAX_WORKERS

\* the pool threads that are not inside a call of _analyze_single_package
IdleWorkers == Workers \ {task[i].worker : i \in Running}

\* the threads are interchangeable: the idle thread with the lowest number
\* stands for whichever of them takes the item off the queue
NextWorker == CHOOSE w \in IdleWorkers : \A v \in IdleWorkers : w <= v

\* a pool thread takes the oldest queued item (ThreadPoolExecutor(max_workers))
Dispatch(i) ==
    /\ task[i].pc = "queued"
    /\ \A j \in 1..(i - 1) : task[j].pc # "queued"
    /\ IdleWorkers # {}
    /\ task' = [task EXCEPT ![i].pc = StageOrder[1], ![i].worker = NextWorker]
    /\ UNCHANGED Others

\* PrimaryStage without the return that follows a failed fetch
PrimaryStageNoReturn(tk, r, doc) ==
    LET t1 == [tk EXCEPT !.trace = Append(@, "primary"),
                         !.calls = @ \cup {"primary"},
                         !.primary = r.kind]
    IN IF r.kind = "response"
       THEN [t1 EXCEPT !.pc = NextStage("primary", tk.package), !.parsed = TRUE,
                       !.doc = doc.kind, !.package = from_pypi_json(tk.package, doc)]
       ELSE [t1 EXCEPT !.pc = NextStage("primary", tk.package),
                       !.package.error = "Failed to fetch package information"]

\* fetch_package_info: the primary document is fetched and processed
PrimaryStage(tk, r, doc) ==
    LET t0 == [tk EXCEPT !.trace = Append(@, "primary"),
                         !.calls = @ \cup {"primary"},
                         !.primary = r.kind]
        t1 == IF r.kind = "response" THEN [t0 EXCEPT !.doc = doc.kind] ELSE t0
    IN CASE r.kind = "none" ->
              [t1 EXCEPT !.pc = "fetched",
                         !.package.error = "Failed to fetch package information"]
         [] r.kind = "raise" ->
              [t1 EXCEPT !.pc = "fetched",
                         !.package.error = "Error: " \o r.exc]
         [] doc.kind = "bad_json" ->
              [t1 EXCEPT !.pc = "fetched",
                         !.package.error = "Error: JSONDecodeError"]
         [] doc.kind = "bad_fields" ->
              [t1 EXCEPT !.pc = "fetched",
                         !.package = [from_pypi_json(tk.package, doc)
                                        EXCEPT !.error = "Error: AttributeError"]]
         [] OTHER ->
              [t1 EXCEPT !.pc = NextStage("primary", tk.package),
                         !.parsed = TRUE,
                         !.package = from_pypi_json(tk.package, doc)]

StagePrimary(i) ==
    /\ task[i].pc = "primary"
    /\ \E r \in FetchReturns("primary", FALSE), doc \in DocsFor(task[i].package.name) :
         task' = [task EXCEPT ![i] = PrimaryStage(task[i], r, doc)]
    /\ UNCHANGED Others

StageResult(v) == [value |-> v, exc |-> "none"]
StageRaise(e) == [value |-> "", exc |-> e]

\* the exception a stage meets: the fetch raised, or the payload is broken
StageFault(r, content) ==
    IF r.kind = "raise" THEN r.exc
    ELSE IF r.kind = "response" /\ content = "broken" THEN "ValueError"
    ELSE "none"

\* a stage did not get its data: no response, or an exception in the stage
StageFailed(r, content) == r.kind # "response" \/ content = "broken"

\* scrape_license: the declared license, else the one scraped from the page
scrape_license(license_info, r, content) ==
    IF license_info # "" /\ license_info # "UNKNOWN" THEN StageResult(license_info)
    ELSE IF StageFault(r, content) # "none" THEN StageResult("License not specified")
    ELSE IF r.kind = "response" /\ content = "good" THEN StageResult("BSD License")
    ELSE StageResult("License not specified")

\* scrape_license fetches only when the document left the license unknown
LicenseFetches(license_info) == license_info = "" \/ license_info = "UNKNOWN"

\* fetch_download_stats without its try/except
fetch_download_statsNoExcept(r, content) ==
    IF StageFault(r, content) # "none" THEN StageRaise(StageFault(r, content))
    ELSE IF r.kind = "response" /\ content = "good" THEN StageResult("last_month")
    ELSE StageResult("{}")

\* fetch_download_stats: data.get("data", {}) of the statistics API
fetch_download_stats(r, content) ==
    IF StageFault(r, content) # "none" THEN StageResult("{}")
    ELSE IF r.kind = "response" /\ content = "good" THEN StageResult("last_month")
    ELSE StageResult("{}")

\* fetch_readme with the field left empty when the stage fails
fetch_readmeNoDefault(r, content) ==
    IF r.kind = "response" /\ content = "good" THEN StageResult("readme text")
    ELSE IF StageFailed(r, content) THEN StageResult("")
    ELSE StageResult("No README content available")

\* fetch_readme: the text of the project-description block
fetch_readme(r, content) ==
    IF StageFault(r, content) # "none" THEN StageResult("No README content available")
    ELSE IF r.kind = "response" /\ content = "good" THEN StageResult("readme text")
    ELSE StageResult("No README content available")

\* urlparse(github_url).path.strip("/").split("/"), for the links of the model
path_parts(github_url) ==
    IF github_url = RepositoryUrl THEN <<"acme", "widget">>
    ELSE IF github_url = OwnerUrl THEN <<"acme">>
    ELSE <<"">>

\* what the repository object of the API client holds
ApiStats ==
    [stars |-> Holds(1500), forks |-> Holds(60),
     language |-> Holds(<<"P", "y", "t", "h", "o", "n">>), watchers |-> Holds(25)]

\* the texts of the elements the scrape selects on the hosting page; None
\* when select_one finds no such element
\* '1,234'
Count1 == <<"1", ",", "2", "3", "4">>
\* '56'
Count2 == <<"5", "6">>
\* '1.2k'
Count3 == <<"1", ".", "2", "k">>
\* ' Python '
Language1 == <<" ", "P", "y", "t", "h", "o", "n", " ">>

\* the hosting page a stage of the bulk run meets, by what it holds
PageOf(content) ==
    CASE content = "good" -> [stars |-> Count1, forks |-> Count2, language |-> Language1]
      [] content = "absent" -> [stars |-> PyNone, forks |-> PyNone, language |-> PyNone]
      [] OTHER -> [stars |-> Count1, forks |-> Count3, language |-> Language1]

\* text.replace(",", "")
remove_commas(text) == SelectSeq(text, LAMBDA c : c # ",")

\* int(text.replace(",", "")) raises ValueError: the text is not a number
count_raises(text) == text # PyNone /\ ~str_isdigit(remove_commas(str_strip(text)))

\* stats[key] after `if element: stats[key] = int(text.replace(",", ""))`
scraped_count(text) ==
    IF text = PyNone THEN NoNumber ELSE Holds(to_int(remove_commas(str_strip(text))))

\* stats["language"] after `if language_element: ...`
scraped_language(text) == IF text = PyNone THEN NoText ELSE Holds(str_strip(text))

\* after_api with the API client left unused
after_apiScrapeOnly(github_url, api) == "scrape"

\* the part of fetch_github_stats that uses the API client: it returns {}
\* for a link without owner and repository ("empty"), returns the dict built
\* from the repository ("api"), or is left for the scrape ("scrape") when no
\* client is configured or the API call raised
after_api(github_url, api) ==
    IF ~github_client THEN "scrape"
    ELSE IF Len(path_parts(github_url)) < 2 THEN "empty"
    ELSE IF api = "ok" THEN "api"
    ELSE "scrape"

\* the scrape of the page of a response: the dict it returns, {} when a count
\* is no number (the ValueError is caught by the except clause of the stage)
scrape_stats(page) ==
    IF count_raises(page.stars) \/ count_raises(page.forks) THEN EmptyStats
    ELSE [EmptyStats EXCEPT !.stars = scraped_count(page.stars),
                            !.forks = scraped_count(page.forks),
                            !.language = scraped_language(page.language)]

\* fetch_github_stats scrapes the hosting page
Scrapes(github_url, api) == after_api(github_url, api) = "scrape"

\* fetch_github_stats: the API client first, then the scraped page
fetch_github_stats(github_url, api, r, page) ==
    CASE after_api(github_url, api) = "empty" -> StageResult(EmptyStats)
      [] after_api(github_url, api) = "api" -> StageResult(ApiStats)
      [] OTHER ->
            IF r.kind # "response" THEN StageResult(EmptyStats)
            ELSE StageResult(scrape_stats(page))

\* bookkeeping of one later stage, and the except clause of fetch_package_info
AfterStage(tk, stage, res, fetched, failed) ==
    LET t1 == [tk EXCEPT !.trace = Append(@, stage),
                         !.calls = IF fetched THEN @ \cup {stage} ELSE @,
                         !.failed = IF fetched /\ failed THEN @ \cup {stage} ELSE @]
    IN IF res.exc # "none"
       THEN [t1 EXCEPT !.pc = "fetched", !.package.error = "Error: " \o res.exc]
       ELSE [t1 EXCEPT !.pc = NextStage(stage, tk.package)]

StageLicense(i) ==
    /\ task[i].pc = "license"
    /\ \E r \in FetchReturns("license", TRUE), content \in ContentsFor("license") :
         LET res == scrape_license(task[i].package.license, r, content)
             tk == AfterStage(task[i], "license", res,
                              LicenseFetches(task[i].package.license),
                              StageFailed(r, content))
         IN task' = [task EXCEPT ![i] =
                IF res.exc # "none" THEN tk
                ELSE [tk EXCEPT !.package.license = res.value]]
    /\ UNCHANGED Others

StageDownloads(i) ==
    /\ task[i].pc = "downloads"
    /\ \E r \in FetchReturns("downloads", FALSE), content \in ContentsFor("downloads") :
         LET res == fetch_download_stats(r, content)
             tk == AfterStage(task[i], "downloads", res, TRUE, StageFailed(r, content))
         IN task' = [task EXCEPT ![i] =
                IF res.exc # "none" THEN tk
                ELSE [tk EXCEPT !.package.downloads = res.value]]
    /\ UNCHANGED Others

StageReadme(i) ==
    /\ task[i].pc = "readme"
    /\ \E r \in FetchReturns("readme", TRUE), content \in ContentsFor("readme") :
         LET res == fetch_readme(r, content)
             tk == AfterStage(task[i], "readme", res, TRUE, StageFailed(r, content))
         IN task' = [task EXCEPT ![i] =
                IF res.exc # "none" THEN tk
                ELSE [tk EXCEPT !.package.readme_content = res.value]]
    /\ UNCHANGED Others

StageGithub(i) ==
    /\ task[i].pc = "github"
    /\ \E r \in FetchReturns("github", TRUE), content \in ContentsFor("github"),
          api \in (IF "github" \in faulty THEN {"ok", "fail"} ELSE {"ok"}) :
         LET res == fetch_github_stats(task[i].package.github_url, api, r,
                                       PageOf(content))
             tk == AfterStage(task[i], "github", res,
                              Scrapes(task[i].package.github_url, api),
                              StageFailed(r, content))
         IN task' = [task EXCEPT ![i] =
                IF res.exc # "none" THEN tk
                ELSE [tk EXCEPT !.package.github_stats = res.value]]
    /\ UNCHANGED Others

\* what a completed future holds: a value, or the exception that escaped
FutureValue(package) == [value |-> package, exc |-> "none"]
FutureException(package, e) == [value |-> package, exc |-> e]

\* _analyze_single_package: `fault` is an exception raised inside its try
\* block, `analysis` what analyze_package_source returns
analyze_single_packageNoExcept(package, include, analysis, fault) ==
    IF fault # "none"
    THEN FutureException(package, fault)
    ELSE IF package.error = "None" /\ include
    THEN FutureValue([package EXCEPT !.source_analysis = analysis])
    ELSE FutureValue(package)

\* analyze_single_package with the check of package.error left out
analyze_single_packageIgnoresError(package, include, analysis, fault) ==
    IF fault # "none"
    THEN FutureValue([PackageInfo(package.name) EXCEPT !.error = fault])
    ELSE IF include
    THEN FutureValue([package EXCEPT !.source_analysis = analysis])
    ELSE FutureValue(package)

\* analyze_single_package that clears the readme of the record it analyses
analyze_single_packageDropsReadme(package, include, analysis, fault) ==
    IF fault # "none"
    THEN FutureValue([PackageInfo(package.name) EXCEPT !.error = fault])
    ELSE IF package.error = "None" /\ include
    THEN FutureValue([package EXCEPT !.source_analysis = analysis,
                                     !.readme_content = ""])
    ELSE FutureValue(package)

analyze_single_package(package, include, analysis, fault) ==
    IF fault # "none"
    THEN FutureValue([PackageInfo(package.name) EXCEPT !.error = fault])
    ELSE IF package.error = "None" /\ include
    THEN FutureValue([package EXCEPT !.source_analysis = analysis])
    ELSE FutureValue(package)

AnalyzeSingle(i) ==
    /\ task[i].pc = "fetched"
    /\ \E analysis \in (IF "analysis" \in faulty THEN {"line counts", "error"}
                                                  ELSE {"line counts"}),
          fault \in (IF "analysis" \in faulty THEN {"none", "RuntimeError"}
                                               ELSE {"none"}) :
         LET f == analyze_single_package(task[i].package, include_source_analysis,
                                         analysis, fault)
         IN task' = [task EXCEPT ![i] = [@ EXCEPT
                !.pc = "done", !.package = f.value, !.exc = f.exc,
                !.fault = fault, !.worker = 0]]
    /\ UNCHANGED Others

\* results.append with the records that carry an error left out
AppendResultSkipsFailed(list, package) ==
    IF package.error = "None" THEN Append(list, package) ELSE list

\* results.append(package)
AppendResult(list, package) == Append(list, package)

\* `if package and not package.error`: the report is written for this record
ReportWritten(package) == package.error = "None"

\* advance_progress that counts only the records without error
advance_progressOnSuccess(completed, package) ==
    IF package.error = "None" THEN completed + 1 ELSE completed

\* progress.update(task, advance=1), after the record `package` was handled
advance_progress(completed, package) == completed + 1

\* one turn of `for future in as_completed(futures)`
Collect(i) ==
    /\ bulkPc = "collect"
    /\ task[i].pc = "done"
    /\ ~task[i].collected
    /\ task' = [task EXCEPT ![i].collected = TRUE]
    /\ IF task[i].exc # "none"
       THEN /\ bulkPc' = "raised_future"
            /\ UNCHANGED <<results, progress>>
       ELSE /\ results' = AppendResult(results, task[i].package)
            /\ \E written \in {"ok", "OSError"} :
                 IF ReportWritten(task[i].package) /\ written # "ok"
                 THEN bulkPc' = "raised_save_report" /\ UNCHANGED progress
                 ELSE /\ progress' = advance_progress(progress, task[i].package)
                      /\ UNCHANGED bulkPc
    /\ UNCHANGED <<headers, browser, fs, package_names, include_source_analysis,
                   github_client, faulty, pypi,
                   hosting, driver, use_cloudscraper>>

\* every future was consumed: the executor is shut down, results is returned
Return ==
    /\ bulkPc = "collect"
    /\ \A i \in Positions : task[i].collected
    /\ bulkPc' = "returned"
    /\ UNCHANGED <<headers, browser, fs, package_names, include_source_analysis,
                   github_client, task, results, progress, faulty, pypi,
                   hosting, driver, use_cloudscraper>>

Next ==
    \/ Submit
    \/ Return
    \/ \E i \in Positions :
        \/ Dispatch(i)
        \/ StagePrimary(i)
        \/ StageLicense(i)
        \/ StageDownloads(i)
        \/ StageReadme(i)
        \/ StageGithub(i)
        \/ AnalyzeSingle(i)
        \/ Collect(i)

Spec == Init /\ [][Next]_vars

\* main(), one package: `if not package.error and args.source_analysis:
\* package.source_analysis = scraper.analyze_package_source(...)`
main_source_analysis(package, source_analysis, analysis) ==
    IF package.error = "None" /\ source_analysis
    THEN [package EXCEPT !.source_analysis = analysis]
    ELSE package

\* main() after fetch_package_info returned the record of its one package
MainAnalyze(i) ==
    /\ bulkPc = "single"
    /\ task[i].pc = "fetched"
    /\ \E analysis \in {"line counts", "error"} :
         task' = [task EXCEPT ![i] = [@ EXCEPT
                !.pc = "analyzed",
                !.package = main_source_analysis(task[i].package,
                                include_source_analysis, analysis)]]
    /\ UNCHANGED Others

\* one call of fetch_package_info, as main() makes it for a single package,
\* with every source free to misbehave
InitPipeline ==
    /\ headers \in Profiles
    /\ browser \in BOOLEAN
    /\ fs = [t \in Fetchers |-> [IdleFetch EXCEPT !.pc = "off"]]
    /\ package_names \in {<<AllNames[k]>> : k \in DOMAIN AllNames}
    /\ include_source_analysis = FALSE
    /\ github_client \in BOOLEAN
    /\ task = <<[NewTask(package_names[1]) EXCEPT !.pc = StageOrder[1]]>>
    /\ results = <<>>
    /\ progress = 0
    /\ faulty = FaultPoints
    /\ bulkPc = "single"
    /\ pypi = NoDocument
    /\ hosting = NoHosting
    /\ driver = NoDriver
    /\ use_cloudscraper = TRUE

NextPipeline ==
    \E i \in Positions :
        \/ StagePrimary(i)
        \/ StageLicense(i)
        \/ StageDownloads(i)
        \/ StageReadme(i)
        \/ StageGithub(i)

SpecPipeline == InitPipeline /\ [][NextPipeline]_vars

\* one package from the first statement of fetch_package_info to the end of
\* its caller's use of the record, with every source free to misbehave: the
\* caller is main() for a single package ("single") or a pool thread of a
\* bulk run in _analyze_single_package ("worker")
InitCaller ==
    /\ headers = "ua1"
    /\ browser \in BOOLEAN
    /\ fs = [t \in Fetchers |-> [IdleFetch EXCEPT !.pc = "off"]]
    /\ package_names \in {<<AllNames[k]>> : k \in DOMAIN AllNames}
    /\ include_source_analysis \in BOOLEAN
    /\ github_client \in BOOLEAN
    /\ task = <<[NewTask(package_names[1]) EXCEPT !.pc = StageOrder[1]]>>
    /\ results = <<>>
    /\ progress = 0
    /\ faulty = FaultPoints
    /\ bulkPc \in {"single", "worker"}
    /\ pypi = NoDocument
    /\ hosting = NoHosting
    /\ driver = NoDriver
    /\ use_cloudscraper = TRUE

NextCaller ==
    \E i \in Positions :
        \/ StagePrimary(i)
        \/ StageLicense(i)
        \/ StageDownloads(i)
        \/ StageReadme(i)
        \/ StageGithub(i)
        \/ MainAnalyze(i)
        \/ (bulkPc = "worker" /\ AnalyzeSingle(i))

SpecCaller == InitCaller /\ [][NextCaller]_vars

\* ------------------------------------------------------------------------
\* The bulk run over more packages than the pool has threads
\* ------------------------------------------------------------------------

\* fetch_package_info(name) run to its end against sources that all answer
HealthyRecord(name) ==
    LET p == from_pypi_json(PackageInfo(name), Catalog(name))
        ok == Response(200)
    IN [p EXCEPT
          !.license = scrape_license(p.license, ok, "good").value,
          !.downloads = fetch_download_stats(ok, "good").value,
          !.readme_content = fetch_readme(ok, "good").value,
          !.github_stats = IF p.github_url # "None"
                           THEN fetch_github_stats(p.github_url, "ok", ok,
                                                   PageOf("good")).value
                           ELSE @]

\* a pool thread runs _analyze_single_package for its item from the first
\* statement to the return, all sources answering
RunToCompletion(i) ==
    /\ task[i].pc = StageOrder[1]
    /\ LET p == HealthyRecord(task[i].package.name)
           f == analyze_single_package(p, include_source_analysis,
                                       "line counts", "none")
       IN task' = [task EXCEPT ![i] = [@ EXCEPT
              !.pc = "done", !.package = f.value, !.exc = f.exc,
              !.primary = "response", !.doc = "full", !.parsed = TRUE,
              !.trace = IF p.github_url # "None" THEN StageOrder
                        ELSE SubSeq(StageOrder, 1, 4),
              !.worker = 0]]
    /\ UNCHANGED Others

\* KeyboardInterrupt is raised in the thread that runs bulk_analyze, while it
\* submits or collects: the exception leaves the loops and reaches the exit
\* of `with ThreadPoolExecutor(...)`, which is shutdown(wait=True); the work
\* items already submitted stay in the queue of the pool
Interrupt ==
    /\ bulkPc \in {"submit", "collect"}
    /\ bulkPc' = "interrupted"
    /\ UNCHANGED <<headers, browser, fs, package_names, include_source_analysis,
                   github_client, task, results, progress, faulty, pypi,
                   hosting, driver, use_cloudscraper>>

\* shutdown(wait=True) returns when the pool threads have run every submitted
\* item; the KeyboardInterrupt then leaves bulk_analyze
InterruptLeaves ==
    /\ bulkPc = "interrupted"
    /\ \A i \in Positions : task[i].pc = "done"
    /\ bulkPc' = "raised_interrupt"
    /\ UNCHANGED <<headers, browser, fs, package_names, include_source_analysis,
                   github_client, task, results, progress, faulty, pypi,
                   hosting, driver, use_cloudscraper>>

InitPool ==
    /\ headers = "ua1"
    /\ browser = FALSE
    /\ fs = [t \in Fetchers |-> [IdleFetch EXCEPT !.pc = "off"]]
    \* distinct package names, more than MAX_WORKERS of them
    /\ package_names \in {SubSeq((AllNames \o <<"sprocket", "cog", "flange", "bolt">>), 1, n) : n \in 0..MaxPool}
    /\ include_source_analysis = FALSE
    /\ github_client = FALSE
    /\ task = <<>>
    /\ results = <<>>
    /\ progress = 0
    /\ faulty = {}
    /\ bulkPc = "submit"
    /\ pypi = NoDocument
    /\ hosting = NoHosting
    /\ driver = NoDriver
    /\ use_cloudscraper = TRUE

NextPool ==
    \/ Submit
    \/ Return
    \/ Interrupt
    \/ InterruptLeaves
    \/ \E i \in Positions :
        \/ Dispatch(i)
        \/ RunToCompletion(i)
        \/ Collect(i)

SpecPool == InitPool /\ [][NextPool]_vars

\* ------------------------------------------------------------------------
\* PackageInfo.from_pypi_json on the fields of the primary document
\* ------------------------------------------------------------------------

\* the requirement strings a document may list in requires_dist
ReqPool ==
    <<
      \* 'foo>=1.0'
      <<"f", "o", "o", ">", "=", "1", ".", "0">>,
      \* "bar; extra == 'dev'"
      <<"b", "a", "r", ";", " ", "e", "x", "t", "r", "a", " ", "=", "=", " ", "'", "d", "e", "v", "'">>,
      \* 'baz; extra == "test"'
      <<"b", "a", "z", ";", " ", "e", "x", "t", "r", "a", " ", "=", "=", " ", "\"", "t", "e", "s", "t", "\"">>,
      \* "qux; python_version < '3.8'"
      <<"q", "u", "x", ";", " ", "p", "y", "t", "h", "o", "n", "_", "v", "e", "r", "s", "i", "o", "n", " ", "<", " ", "'", "3", ".", "8", "'">>,
      \* ''
      <<>>,
      \* " Sphinx ; EXTRA == 'DOCS' "
      <<" ", "S", "p", "h", "i", "n", "x", " ", ";", " ", "E", "X", "T", "R", "A", " ", "=", "=", " ", "'", "D", "O", "C", "S", "'", " ">>
    >>

\* the entries a document may list in project_urls
LinkPool ==
    <<
      \* 'Homepage': 'https://github.com/acme/widget'
      [key |-> <<"H", "o", "m", "e", "p", "a", "g", "e">>, value |-> <<"h", "t", "t", "p", "s", ":", "/", "/", "g", "i", "t", "h", "u", "b", ".", "c", "o", "m", "/", "a", "c", "m", "e", "/", "w", "i", "d", "g", "e", "t">>],
      \* 'Docs': None
      [key |-> <<"D", "o", "c", "s">>, value |-> PyNone],
      \* 'Changelog': ''
      [key |-> <<"C", "h", "a", "n", "g", "e", "l", "o", "g">>, value |-> <<>>],
      \* 'source': 'https://GitHub.com/acme/core?tab=readme#top'
      [key |-> <<"s", "o", "u", "r", "c", "e">>, value |-> <<"h", "t", "t", "p", "s", ":", "/", "/", "G", "i", "t", "H", "u", "b", ".", "c", "o", "m", "/", "a", "c", "m", "e", "/", "c", "o", "r", "e", "?", "t", "a", "b", "=", "r", "e", "a", "d", "m", "e", "#", "t", "o", "p">>],
      \* 'Source': 'https://gitlab.com/acme/widget'
      [key |-> <<"S", "o", "u", "r", "c", "e">>, value |-> <<"h", "t", "t", "p", "s", ":", "/", "/", "g", "i", "t", "l", "a", "b", ".", "c", "o", "m", "/", "a", "c", "m", "e", "/", "w", "i", "d", "g", "e", "t">>],
      \* 'Tracker': 'https://github.com/acme/widget/issues'
      [key |-> <<"T", "r", "a", "c", "k", "e", "r">>, value |-> <<"h", "t", "t", "p", "s", ":", "/", "/", "g", "i", "t", "h", "u", "b", ".", "c", "o", "m", "/", "a", "c", "m", "e", "/", "w", "i", "d", "g", "e", "t", "/", "i", "s", "s", "u", "e", "s">>]
    >>

\* the markers _parse_requirements looks for in the lowered marker text
DevMarkers ==
    {<<"e", "x", "t", "r", "a", " ", "=", "=", " ", "'", "d", "e", "v", "'">>,
     <<"e", "x", "t", "r", "a", " ", "=", "=", " ", "'", "t", "e", "s", "t", "'">>,
     <<"e", "x", "t", "r", "a", " ", "=", "=", " ", "'", "d", "o", "c", "s", "'">>}

\* the sentinel "No dependencies listed"
NoDependencies == <<"N", "o", " ", "d", "e", "p", "e", "n", "d", "e", "n", "c", "i", "e", "s", " ", "l", "i", "s", "t", "e", "d">>

\* the branch of _parse_requirements that appends req to dev_deps
is_dev_requirement(req) ==
    /\ str_in(<<";">>, req)
    /\ \E dev_marker \in DevMarkers : str_in(dev_marker, str_lower(str_after(req, ";")))

\* _parse_requirements with an empty list returned when nothing is required
parse_requirementsNoSentinel(requires_dist) ==
    LET listed == SelectSeq(requires_dist, LAMBDA req : req # <<>>)
    IN [dependencies |->
            MapSeq(str_strip, SelectSeq(listed, LAMBDA req : ~is_dev_requirement(req))),
        dev_dependencies |-> MapSeq(str_strip, SelectSeq(listed, is_dev_requirement))]

\* _parse_requirements: the list it returns and the dev_dependencies it sets
parse_requirements(requires_dist) ==
    LET listed == SelectSeq(requires_dist, LAMBDA req : req # <<>>)
        regular_deps ==
            MapSeq(str_strip, SelectSeq(listed, LAMBDA req : ~is_dev_requirement(req)))
    IN [dependencies |-> IF regular_deps # <<>> THEN regular_deps
                         ELSE <<NoDependencies>>,
        dev_dependencies |-> MapSeq(str_strip, SelectSeq(listed, is_dev_requirement))]

\* a dict is the sequence of its items in insertion order
HasKey(d, key) == \E i \in 1..Len(d) : d[i].key = key
GetItem(d, key) == d[CHOOSE i \in 1..Len(d) : d[i].key = key].value

\* the loop of from_pypi_json that deletes the keys whose value is None
drop_none_values(project_urls) == SelectSeq(project_urls, LAMBDA e : e.value # PyNone)

github_keys ==
    <<<<"G", "i", "t", "H", "u", "b">>,
      <<"S", "o", "u", "r", "c", "e">>,
      <<"S", "o", "u", "r", "c", "e", " ", "C", "o", "d", "e">>,
      <<"R", "e", "p", "o", "s", "i", "t", "o", "r", "y">>,
      <<"C", "o", "d", "e">>,
      <<"H", "o", "m", "e", "p", "a", "g", "e">>>>

\* "github.com" in url.lower()
is_github(url) == str_in(<<"g", "i", "t", "h", "u", "b", ".", "c", "o", "m">>, str_lower(url))

\* url.split("?")[0].split("#")[0]
strip_url(url) == str_before(str_before(url, "?"), "#")

\* _extract_github_url: the listed keys first, then every value in turn
extract_github_url(project_urls) ==
    LET named == {n \in 1..Len(github_keys) :
                    /\ HasKey(project_urls, github_keys[n])
                    /\ is_github(GetItem(project_urls, github_keys[n]))}
        hosted == {i \in 1..Len(project_urls) :
                    /\ project_urls[i].value # <<>>
                    /\ is_github(project_urls[i].value)}
    IN IF named # {}
       THEN strip_url(GetItem(project_urls,
                github_keys[CHOOSE n \in named : \A m \in named : n <= m]))
       ELSE IF hosted # {}
       THEN strip_url(project_urls[CHOOSE i \in hosted : \A j \in hosted : i <= j].value)
       ELSE PyNone

\* the project_urls and requires_dist a document may hold: absent or null
\* (None), or up to MaxLinks entries with distinct keys and up to MaxReqs
\* requirement strings
Injective(f) == \A i, j \in DOMAIN f : i # j => f[i] # f[j]

\* a container of the document, or the null (or the absence) in its place
Listed(items) == [null |-> FALSE, items |-> items]
Null == [null |-> TRUE, items |-> <<>>]

\* PackageInfo.__init__ and the info of the document handed to from_pypi_json
InitParse ==
    /\ headers = "ua1"
    /\ browser = FALSE
    /\ fs = [t \in Fetchers |-> [IdleFetch EXCEPT !.pc = "off"]]
    /\ NoBulk
    /\ hosting = NoHosting
    /\ driver = NoDriver
    /\ use_cloudscraper = TRUE
    /\ \E links \in {Listed(m) : m \in ({MapSeq(LAMBDA k : LinkPool[k], picks) : picks \in {f \in UNION {[1..n -> DOMAIN LinkPool] : n \in 0..MaxLinks} : Injective(f)}})} \cup {Null},
          reqs \in {Listed(l) : l \in ({MapSeq(LAMBDA k : ReqPool[k], picks) : picks \in UNION {[1..n -> DOMAIN ReqPool] : n \in 0..MaxReqs}})} \cup {Null} :
         pypi = [pc |-> "project_urls",
                 info |-> [project_urls |-> links, requires_dist |-> reqs],
                 project_urls |-> <<>>, dependencies |-> <<>>,
                 dev_dependencies |-> <<>>, github_url |-> PyNone]

\* self.project_urls = info.get("project_urls", {}) or {}, and the loop that
\* deletes the keys whose value is None
ReadProjectUrls ==
    /\ pypi.pc = "project_urls"
    /\ LET given == IF pypi.info.project_urls.null THEN <<>>
                    ELSE pypi.info.project_urls.items
       IN pypi' = [pypi EXCEPT !.project_urls = drop_none_values(given),
                               !.pc = "requires_dist"]
    /\ UNCHANGED <<headers, browser, fs, package_names, include_source_analysis,
                   github_client, task, results, progress, faulty, bulkPc,
                   hosting, driver, use_cloudscraper>>

\* requires_dist = info.get("requires_dist", []); if requires_dist: ... else: ...
ReadRequirements ==
    /\ pypi.pc = "requires_dist"
    /\ LET requires_dist == pypi.info.requires_dist.items
       IN IF ~pypi.info.requires_dist.null /\ requires_dist # <<>>
          THEN pypi' = [pypi EXCEPT
                  !.dependencies = parse_requirements(requires_dist).dependencies,
                  !.dev_dependencies = parse_requirements(requires_dist).dev_dependencies,
                  !.pc = "github_url"]
          ELSE pypi' = [pypi EXCEPT !.dependencies = <<NoDependencies>>,
                                    !.pc = "github_url"]
    /\ UNCHANGED <<headers, browser, fs, package_names, include_source_analysis,
                   github_client, task, results, progress, faulty, bulkPc,
                   hosting, driver, use_cloudscraper>>

\* self.github_url = self._extract_github_url()
ReadGithubUrl ==
    /\ pypi.pc = "github_url"
    /\ pypi' = [pypi EXCEPT !.github_url = extract_github_url(pypi.project_urls),
                            !.pc = "parsed"]
    /\ UNCHANGED <<headers, browser, fs, package_names, include_source_analysis,
                   github_client, task, results, progress, faulty, bulkPc,
                   hosting, driver, use_cloudscraper>>

NextParse == ReadProjectUrls \/ ReadRequirements \/ ReadGithubUrl

SpecParse == InitParse /\ [][NextParse]_vars

\* ------------------------------------------------------------------------
\* PackageInfo._extract_all_versions on the keys of the release map
\* ------------------------------------------------------------------------

\* the release keys a document may hold
VersionPool ==
    <<
      \* '1.0'
      <<"1", ".", "0">>,
      \* '1.0.0'
      <<"1", ".", "0", ".", "0">>,
      \* '1.10'
      <<"1", ".", "1", "0">>,
      \* '1.9'
      <<"1", ".", "9">>,
      \* '2.0a1'
      <<"2", ".", "0", "a", "1">>,
      \* '2.0b1'
      <<"2", ".", "0", "b", "1">>,
      \* 'foo'
      <<"f", "o", "o">>
    >>

\* re.split(r'(\d+)', x): the texts between the runs of digits at the odd
\* places (the first and the last may be empty), the runs at the even places
RECURSIVE re_split_from(_, _, _)
re_split_from(x, i, tokens) ==
    IF i > Len(x)
    THEN IF Len(tokens) % 2 = 0 THEN Append(tokens, <<>>) ELSE tokens
    ELSE LET n == Len(tokens)
             same == is_digit(x[i]) <=> (n % 2 = 0)
         IN re_split_from(x, i + 1,
                IF same THEN [tokens EXCEPT ![n] = Append(@, x[i])]
                ELSE Append(tokens, <<x[i]>>))
re_split(x) == re_split_from(x, 1, <<<<>>>>)

\* a number of a sort key: an int, or float('inf')
Finite(n) == [inf |-> FALSE, n |-> n]

\* k1 < k2 for two lists of numbers: the first place where they differ
\* decides, and a list is greater than each of its proper prefixes
list_lt(k1, k2) ==
    LET both == 1..(IF Len(k1) < Len(k2) THEN Len(k1) ELSE Len(k2))
        differ == {i \in both : k1[i] # k2[i]}
    IN IF differ = {} THEN Len(k1) < Len(k2)
       ELSE LET d == CHOOSE i \in differ : \A j \in differ : i <= j
            IN ~k1[d].inf /\ (k2[d].inf \/ k1[d].n < k2[d].n)

\* [int(p) if p.isdigit() else float('inf') for p in re.split(r'(\d+)', x)]
fallback_key(x) ==
    LET tokens == re_split(x)
    IN [i \in 1..Len(tokens) |->
            IF str_isdigit(tokens[i]) THEN Finite(to_int(tokens[i])) ELSE [inf |-> TRUE, n |-> 0]]

\* packaging_version.parse(x) for the spellings N(.N)* and N(.N)*aN, N(.N)*bN:
\* the release numbers without their trailing zeros and the pre-release (a
\* final release ranks above its pre-releases); any other spelling is an
\* InvalidVersion
version_parse(x) ==
    LET tokens == re_split(x)
        k == (Len(tokens) - 1) \div 2
        pre == IF k >= 2 /\ tokens[2 * k - 1] \in {<<"a">>, <<"b">>}
               THEN tokens[2 * k - 1] ELSE <<>>
        r == IF pre = <<>> THEN k ELSE k - 1
        numbers == [i \in 1..r |-> to_int(tokens[2 * i])]
        kept == {i \in 1..r : numbers[i] # 0}
        last == IF kept = {} THEN 0 ELSE CHOOSE i \in kept : \A j \in kept : j <= i
    IN [valid |-> /\ k >= 1
                  /\ tokens[1] = <<>>
                  /\ tokens[2 * k + 1] = <<>>
                  /\ \A i \in 1..(r - 1) : tokens[2 * i + 1] = <<".">>,
        release |-> [i \in 1..last |-> Finite(numbers[i])],
        pre |-> IF pre = <<"a">> THEN <<Finite(0), Finite(to_int(tokens[2 * k]))>>
                ELSE IF pre = <<"b">> THEN <<Finite(1), Finite(to_int(tokens[2 * k]))>>
                ELSE <<Finite(2), Finite(0)>>]

\* Version.__lt__: the release numbers first, then the pre-release
version_lt(v1, v2) ==
    \/ list_lt(v1.release, v2.release)
    \/ v1.release = v2.release /\ list_lt(v1.pre, v2.pre)

\* key(a) < key(b) under the key function of the sort in use
key_lt(semantic, a, b) ==
    IF semantic THEN version_lt(version_parse(a), version_parse(b))
    ELSE list_lt(fallback_key(a), fallback_key(b))

\* versions.sort(key=..., reverse=True): descending by key, the entries with
\* equal keys in the order they had (the sort is stable)
sort_reverse(versions, semantic) ==
    LET place(i) ==
            1 + Cardinality({j \in 1..Len(versions) :
                                key_lt(semantic, versions[i], versions[j])})
              + Cardinality({j \in 1..(i - 1) :
                                /\ ~key_lt(semantic, versions[i], versions[j])
                                /\ ~key_lt(semantic, versions[j], versions[i])})
    IN [n \in 1..Len(versions) |->
            versions[CHOOSE i \in 1..Len(versions) : place(i) = n]]

\* every key of the list parses: the first sort raises nothing
all_parse(versions) == \A i \in 1..Len(versions) : version_parse(versions[i]).valid

\* _extract_all_versions as one call
extract_all_versions(versions) == sort_reverse(versions, all_parse(versions))

InitVersions ==
    /\ headers = "ua1"
    /\ browser = FALSE
    /\ fs = [t \in Fetchers |-> [IdleFetch EXCEPT !.pc = "off"]]
    /\ NoBulk
    /\ hosting = NoHosting
    /\ driver = NoDriver
    /\ use_cloudscraper = TRUE
    \* the keys of data["releases"], in the order of the document
    /\ \E releases \in ({MapSeq(LAMBDA k : VersionPool[k], picks) : picks \in {f \in UNION {[1..n -> DOMAIN VersionPool] : n \in 0..MaxReleases} : Injective(f)}}) :
         pypi = [pc |-> "try", releases |-> releases, versions |-> releases,
                 used |-> "none"]

\* try: versions.sort(key=lambda x: packaging_version.parse(x), reverse=True);
\* the keys are computed before anything is moved, so a key that does not
\* parse leaves the list as it was
SortSemantic ==
    /\ pypi.pc = "try"
    /\ IF all_parse(pypi.versions)
       THEN pypi' = [pypi EXCEPT !.versions = sort_reverse(@, TRUE),
                                 !.used = "semantic", !.pc = "sorted"]
       ELSE pypi' = [pypi EXCEPT !.pc = "except"]
    /\ UNCHANGED <<headers, browser, fs, package_names, include_source_analysis,
                   github_client, task, results, progress, faulty, bulkPc,
                   hosting, driver, use_cloudscraper>>

\* except Exception: versions.sort(key=<tokens of digits>, reverse=True)
SortFallback ==
    /\ pypi.pc = "except"
    /\ pypi' = [pypi EXCEPT !.versions = sort_reverse(@, FALSE),
                            !.used = "fallback", !.pc = "sorted"]
    /\ UNCHANGED <<headers, browser, fs, package_names, include_source_analysis,
                   github_client, task, results, progress, faulty, bulkPc,
                   hosting, driver, use_cloudscraper>>

NextVersions == SortSemantic \/ SortFallback

SpecVersions == InitVersions /\ [][NextVersions]_vars

\* ------------------------------------------------------------------------
\* fetch_github_stats, statement by statement
\* ------------------------------------------------------------------------

InitHosting ==
    /\ headers = "ua1"
    /\ browser = FALSE
    /\ fs = [t \in Fetchers |-> [IdleFetch EXCEPT !.pc = "off"]]
    /\ package_names = <<>>
    /\ include_source_analysis = FALSE
    /\ github_client \in BOOLEAN
    /\ task = <<>>
    /\ results = <<>>
    /\ progress = 0
    /\ faulty = {}
    /\ bulkPc = "idle"
    /\ pypi = NoDocument
    /\ driver = NoDriver
    /\ use_cloudscraper = TRUE
    /\ \E url \in {RepositoryUrl, OwnerUrl}, api \in {"ok", "fail"},
          \* what fetch_with_retry(github_url, use_browser=True) hands to the stage
          r \in ({Response(200), NoneResult, Raised("CloudflareException")}), page \in ([stars : {PyNone, Count1, Count3}, forks : {PyNone, Count2, Count3}, language : {PyNone, Language1}]) :
         hosting = [pc |-> "api", github_url |-> url, api |-> api,
                    response |-> r, page |-> page, log |-> <<>>,
                    stats |-> EmptyStats, result |-> EmptyStats]

\* `if self.github_client:` and the try block that asks the API
HostingApi ==
    /\ hosting.pc = "api"
    /\ LET next == after_api(hosting.github_url, hosting.api)
           \* self.github_client.get_repo(...) is called
           asked == IF github_client /\ Len(path_parts(hosting.github_url)) >= 2
                    THEN Append(hosting.log, "api") ELSE hosting.log
       IN hosting' = [hosting EXCEPT
              !.log = asked,
              !.pc = IF next = "scrape" THEN "scrape" ELSE "returned",
              !.result = IF next = "api" THEN ApiStats ELSE EmptyStats]
    /\ UNCHANGED <<headers, browser, fs, package_names, include_source_analysis,
                   github_client, task, results, progress, faulty, bulkPc,
                   pypi, driver, use_cloudscraper>>

\* response = self.fetch_with_retry(github_url, use_browser=True);
\* `if not response: return {}`, and the except clause for a fetch that raised
HostingFetch ==
    /\ hosting.pc = "scrape"
    /\ hosting' = [hosting EXCEPT
          !.log = Append(@, "scrape"),
          !.pc = IF hosting.response.kind = "response" THEN "stars" ELSE "returned",
          !.result = EmptyStats]
    /\ UNCHANGED <<headers, browser, fs, package_names, include_source_analysis,
                   github_client, task, results, progress, faulty, bulkPc,
                   pypi, driver, use_cloudscraper>>

\* `if stars_element: stats["stars"] = int(stars_text.replace(",", ""))`
HostingStars ==
    /\ hosting.pc = "stars"
    /\ hosting' =
          IF count_raises(hosting.page.stars)
          THEN [hosting EXCEPT !.pc = "returned", !.result = EmptyStats]
          ELSE [hosting EXCEPT !.pc = "forks",
                               !.stats.stars = scraped_count(hosting.page.stars)]
    /\ UNCHANGED <<headers, browser, fs, package_names, include_source_analysis,
                   github_client, task, results, progress, faulty, bulkPc,
                   pypi, driver, use_cloudscraper>>

\* `if forks_element: stats["forks"] = int(forks_text.replace(",", ""))`
HostingForks ==
    /\ hosting.pc = "forks"
    /\ hosting' =
          IF count_raises(hosting.page.forks)
          THEN [hosting EXCEPT !.pc = "returned", !.result = EmptyStats]
          ELSE [hosting EXCEPT !.pc = "language",
                               !.stats.forks = scraped_count(hosting.page.forks)]
    /\ UNCHANGED <<headers, browser, fs, package_names, include_source_analysis,
                   github_client, task, results, progress, faulty, bulkPc,
                   pypi, driver, use_cloudscraper>>

\* `if language_element: stats["language"] = ...`; return stats
HostingLanguage ==
    /\ hosting.pc = "language"
    /\ LET stats == [hosting.stats EXCEPT
                        !.language = scraped_language(hosting.page.language)]
       IN hosting' = [hosting EXCEPT !.pc = "returned", !.stats = stats,
                                     !.result = stats]
    /\ UNCHANGED <<headers, browser, fs, package_names, include_source_analysis,
                   github_client, task, results, progress, faulty, bulkPc,
                   pypi, driver, use_cloudscraper>>

NextHosting ==
    \/ HostingApi
    \/ HostingFetch
    \/ HostingStars
    \/ HostingForks
    \/ HostingLanguage

SpecHosting == InitHosting /\ [][NextHosting]_vars

\* ------------------------------------------------------------------------
\* BrowserAutomation.fetch_with_browser, called by two pool threads
\* ------------------------------------------------------------------------

\* the URL a pool thread asks the browser for in the n-th browser fetch of
\* its pipeline: the project page of its package, then other pages of it
AskedUrl(t, n) ==
    <<IF t = "w1" THEN "https://pypi.org/project/examplepkg/"
      ELSE "https://pypi.org/project/widget/", t, n>>

InitBrowser ==
    /\ headers = "ua1"
    /\ browser = TRUE
    /\ fs = [t \in PoolFetchers |->
                [IdleFetch EXCEPT !.pc = "browser", !.use_browser = TRUE]]
    /\ package_names = <<>>
    /\ include_source_analysis = FALSE
    /\ github_client = FALSE
    /\ task = <<>>
    /\ results = <<>>
    /\ progress = 0
    /\ faulty = {}
    /\ bulkPc = "workers"
    /\ pypi = NoDocument
    /\ hosting = NoHosting
    /\ use_cloudscraper = TRUE
    /\ driver = [instance |-> 0, created |-> 0, loaded |-> <<"about:blank">>,
                 calls |-> [t \in PoolFetchers |->
                               [pc |-> "check", n |-> 1, url |-> AskedUrl(t, 1),
                                page |-> <<"unasked">>]]]

BrowserOthers == <<headers, browser, fs, package_names, include_source_analysis,
                   github_client, task, results, progress, faulty, bulkPc,
                   pypi, hosting, use_cloudscraper>>

\* `if not self.driver:` of fetch_with_browser
DriverCheck(t) ==
    /\ driver.calls[t].pc = "check"
    /\ driver' = [driver EXCEPT
          !.calls[t].pc = IF driver.instance = 0 THEN "initialize" ELSE "get"]
    /\ UNCHANGED BrowserOthers

\* self.initialize(): self.driver = uc.Chrome(options=options), then the
\* script; `if not self.initialize(): return None`
DriverInitialize(t) ==
    /\ driver.calls[t].pc = "initialize"
    \* how BrowserAutomation.initialize can end: the driver is created and
    \* prepared, uc.Chrome raises, or the script run on the new driver raises
    /\ \E outcome \in {"ok", "chrome_raises", "script_raises"} :
         driver' =
            IF outcome = "chrome_raises"
            THEN [driver EXCEPT !.calls[t].pc = "returned",
                                !.calls[t].page = PyNone]
            ELSE [driver EXCEPT
                    !.instance = driver.created + 1,
                    !.created = driver.created + 1,
                    !.loaded = <<"about:blank">>,
                    !.calls[t].pc = IF outcome = "ok" THEN "get" ELSE "returned",
                    !.calls[t].page = IF outcome = "ok" THEN @ ELSE PyNone]
    /\ UNCHANGED BrowserOthers

\* self.driver.get(url) and WebDriverWait(...).until(body is present)
DriverGet(t) ==
    /\ driver.calls[t].pc = "get"
    \* how driver.get(url) and the wait for the body element can end
    /\ \E outcome \in {"ok", "raises"} :
         driver' =
            IF outcome = "raises"
            THEN [driver EXCEPT !.calls[t].pc = "returned",
                                !.calls[t].page = PyNone]
            ELSE [driver EXCEPT !.loaded = driver.calls[t].url,
                                !.calls[t].pc = "page_source"]
    /\ UNCHANGED BrowserOthers

\* return self.driver.page_source: the page the driver holds at this moment
DriverPageSource(t) ==
    /\ driver.calls[t].pc = "page_source"
    /\ driver' = [driver EXCEPT !.calls[t].pc = "returned",
                                !.calls[t].page = driver.loaded]
    /\ UNCHANGED BrowserOthers

\* the pipeline of the thread reaches its next fetch with use_browser=True
DriverNextCall(t) ==
    /\ driver.calls[t].pc = "returned"
    /\ driver.calls[t].n < MaxBrowserCalls
    /\ driver' = [driver EXCEPT
          !.calls[t] = [pc |-> "check", n |-> driver.calls[t].n + 1,
                        url |-> AskedUrl(t, driver.calls[t].n + 1),
                        page |-> <<"unasked">>]]
    /\ UNCHANGED BrowserOthers

NextBrowser ==
    \E t \in PoolFetchers :
        \/ DriverNextCall(t)
        \/ DriverCheck(t)
        \/ DriverInitialize(t)
        \/ DriverGet(t)
        \/ DriverPageSource(t)

SpecBrowser == InitBrowser /\ [][NextBrowser]_vars

\* ------------------------------------------------------------------------
\* Properties
\* ------------------------------------------------------------------------

OkOut(o) == o.exc = "none" /\ o.status < 400
RetryableStatusOut(o) == o.exc = "none" /\ o.status \in RetryableStatuses
RetryableOut(o) == RetryableStatusOut(o) \/ o.exc = "ConnectionError"
FatalStatusOut(o) ==
    o.exc = "none" /\ o.status >= 400 /\ o.status \notin RetryableStatuses

\* the records of `results` that carry the name `n`
RecordsNamed(n) == {j \in 1..Len(results) : results[j].name = n}

\* C1: when bulk_analyze returns, results holds as many records as there
\* are package names, and every package name is the name of exactly one of
\* them, whatever the pipelines did and however the pool threads interleaved.
C1_OneRecordPerIdentity ==
    bulkPc = "returned" =>
        /\ Len(results) = Len(package_names)
        /\ \A k \in 1..Len(package_names) :
              Cardinality(RecordsNamed(package_names[k])) = 1

\* a returned run of at least two packages, one failed and one not, whose
\* records came in another order than the names
C1_Witness ==
    /\ bulkPc = "returned"
    /\ Len(package_names) >= 2
    /\ results[1].name # package_names[1]
    /\ \E j, k \in 1..Len(results) :
          results[j].error # "None" /\ results[k].error = "None"

\* C2: an exception raised inside _analyze_single_package never reaches
\* bulk_analyze: the future holds a fresh record of that package with error
\* set to the exception's message, and a returned run holds the record of
\* every package as its own pipeline produced it.
C2_ItemFaultIsolated ==
    /\ bulkPc # "raised_future"
    /\ \A i \in Positions :
          (task[i].pc = "done" /\ task[i].fault # "none") =>
              /\ task[i].exc = "none"
              /\ task[i].package =
                    [PackageInfo(package_names[i]) EXCEPT !.error = task[i].fault]
    /\ bulkPc = "returned" =>
          \A i \in Positions :
              \E j \in 1..Len(results) : results[j] = task[i].package

\* a returned run in which one item met such an exception and another item,
\* collected after it, ended without error
C2_Witness ==
    /\ bulkPc = "returned"
    /\ \E i, k \in Positions :
          /\ task[i].fault # "none"
          /\ task[k].fault = "none"
          /\ task[k].package.error = "None"
          /\ \E a, b \in 1..Len(results) :
                a < b /\ results[a] = task[i].package /\ results[b] = task[k].package

\* C3: once an attempt succeeds after attempts that all failed with a
\* retryable status, fetch_with_retry has returned that response and the
\* successful attempt is the last one made.
C3_FirstSuccessEndsFetch ==
    \A t \in Fetchers :
        \A k \in 1..Len(fs[t].outs) :
            (OkOut(fs[t].outs[k])
             /\ \A j \in 1..(k - 1) : RetryableStatusOut(fs[t].outs[j])) =>
                /\ k <= REQUEST_RETRIES
                /\ Len(fs[t].outs) = k
                /\ fs[t].pc = "returned"
                /\ fs[t].result = Response(fs[t].outs[k].status)

\* the fetch succeeded on its last allowed attempt, after retryable statuses
C3_Witness ==
    \E t \in Fetchers :
        /\ fs[t].pc = "returned"
        /\ Len(fs[t].outs) = REQUEST_RETRIES
        /\ OkOut(fs[t].outs[REQUEST_RETRIES])
        /\ \A j \in 1..(REQUEST_RETRIES - 1) : RetryableStatusOut(fs[t].outs[j])

\* C4 as stated: the whole delay between two consecutive attempts (backoff
\* wait plus pacing delay) never exceeds the delay before the attempt after.
C4_TotalDelaysNonDecreasing ==
    \A t \in Fetchers :
        \A i \in 1..(Len(fs[t].gaps) - 1) : fs[t].gaps[i] <= fs[t].gaps[i + 1]

\* C4 amended: the backoff wait after failed attempt i is baseDelay x i, so
\* the backoff waits never decrease; the whole delay between attempts i and
\* i+1 is that wait plus a pacing delay of 0.5 to 2.0, and it exceeds the
\* next whole delay by at most 0.5 (one tick).
C4_BackoffNonDecreasing ==
    \A t \in Fetchers :
        /\ \A i \in 1..Len(fs[t].backoffs) :
              fs[t].backoffs[i] = 2 * REQUEST_RETRY_DELAY * i
        /\ \A i \in 1..(Len(fs[t].backoffs) - 1) :
              fs[t].backoffs[i] <= fs[t].backoffs[i + 1]
        /\ \A i \in 1..Len(fs[t].gaps) :
              fs[t].gaps[i] - fs[t].backoffs[i] \in 1..4
        /\ \A i \in 1..(Len(fs[t].gaps) - 1) :
              fs[t].gaps[i] <= fs[t].gaps[i + 1] + 1

\* three attempts were made and the second whole delay was the shorter one
C4_Witness ==
    \E t \in Fetchers :
        /\ Len(fs[t].gaps) = 2
        /\ Len(fs[t].backoffs) = 2
        /\ fs[t].gaps[1] > fs[t].gaps[2]

\* C5: when every attempt made so far failed with a retryable error, no
\* exception has left fetch_with_retry, at most REQUEST_RETRIES attempts were
\* made, and the fetch returns exactly after the REQUEST_RETRIES-th, with None.
C5_ExhaustedReturnsNone ==
    \A t \in Fetchers :
        (Len(fs[t].outs) >= 1
         /\ \A j \in 1..Len(fs[t].outs) : RetryableOut(fs[t].outs[j])) =>
            /\ fs[t].pc # "raised"
            /\ Len(fs[t].outs) <= REQUEST_RETRIES
            /\ (Len(fs[t].outs) = REQUEST_RETRIES <=> fs[t].pc = "returned")
            /\ fs[t].pc = "returned" => fs[t].result = NoneResult

\* a fetch that returned None after REQUEST_RETRIES retryable failures, a
\* network error and a retryable status among them
C5_Witness ==
    \E t \in Fetchers :
        /\ fs[t].pc = "returned"
        /\ fs[t].result = NoneResult
        /\ Len(fs[t].outs) = REQUEST_RETRIES
        /\ \A j \in 1..REQUEST_RETRIES : RetryableOut(fs[t].outs[j])
        /\ fs[t].outs[1].exc = "ConnectionError"
        /\ RetryableStatusOut(fs[t].outs[REQUEST_RETRIES])

\* C6 as stated: after a first attempt answered with an error status outside
\* the retryable set, the fetch is over: one attempt, no retry, no response.
C6_FatalStatusNotRetried ==
    \A t \in Fetchers :
        (Len(fs[t].outs) >= 1 /\ FatalStatusOut(fs[t].outs[1])) =>
            /\ Len(fs[t].outs) = 1
            /\ fs[t].pc \in {"returned", "raised"}
            /\ fs[t].result.kind # "response"

LaterStages == <<"license", "downloads", "readme", "github">>

\* C7: when the primary fetch returned None, the record has error set and
\* version "N/A", fetch_package_info has returned, and the primary stage is
\* the only stage that ran and the only fetch that was issued.
C7_PrimaryFailureStopsPipeline ==
    \A i \in Positions :
        task[i].primary = "none" =>
            /\ task[i].package.error # "None"
            /\ task[i].package.version = "N/A"
            /\ task[i].pc \in {"fetched", "done"}
            /\ task[i].trace = <<"primary">>
            /\ task[i].calls = {"primary"}

\* an HTTP request was sent for the attempt the loop of thread t is in
AttemptSent(t) ==
    /\ Len(fs[t].outs) = fs[t].attempt + 1
    /\ fs[t].outs[Len(fs[t].outs)].exc # "ValueError"

\* C13: every attempt of a lightweight fetch, the first included, is sent
\* only after update_headers drew a profile for it and wrote it to the
\* session headers, and after a pacing sleep of 0.5 to 2.0 (1..4 ticks); no
\* request leaves the session without both.
C13_AttemptRotatedAndPaced ==
    \A t \in DOMAIN fs :
        /\ fs[t].pc = "get_send" =>
              fs[t].drawn \in Profiles /\ fs[t].pace \in 1..4
        /\ AttemptSent(t) <=> fs[t].sent # "none"
        /\ AttemptSent(t) =>
              /\ fs[t].drawn \in Profiles
              /\ fs[t].sent \in Profiles
              /\ fs[t].pace \in 1..4

\* the third attempt of a fetch was sent, after the shortest pacing delay
\* and with the second profile
C13_Witness ==
    \E t \in DOMAIN fs :
        /\ AttemptSent(t)
        /\ fs[t].attempt = REQUEST_RETRIES - 1
        /\ fs[t].pace = 1
        /\ fs[t].drawn = "ua2"

\* C14 as stated: whenever a thread has sent an attempt, the request went
\* out with the profile that thread's update_headers drew for it, whatever
\* the other threads of the pool did in between.
C14_SentWithOwnProfile ==
    \A t \in DOMAIN fs :
        fs[t].sent # "none" => fs[t].sent = fs[t].drawn

\* the browser path was taken and fetch_with_browser returned `page`
BrowserAsked(t) == fs[t].use_browser /\ browser /\ fs[t].page # "unasked"

\* C15: when a fetch asks for the browser, the browser is configured and
\* fetch_with_browser returns a page, fetch_with_retry has returned a response
\* with status 200 whose text is that page, and the fetch made none of the
\* lightweight steps: no update_headers, no pacing sleep, no HTTP attempt,
\* no backoff.
C15_BrowserPageReturnedAlone ==
    \A t \in DOMAIN fs :
        (BrowserAsked(t) /\ fs[t].page \notin {"", "None"}) =>
            /\ fs[t].pc = "returned"
            /\ fs[t].result = [kind |-> "response", status |-> 200, exc |-> "none"]
            /\ fs[t].body = fs[t].page
            /\ fs[t].outs = <<>> /\ fs[t].attempt = 0 /\ fs[t].backoffs = <<>>
            /\ fs[t].drawn = "none" /\ fs[t].sent = "none"
            /\ fs[t].pace = 0 /\ fs[t].wait = 0

\* a fetch that returned the page of the browser
C15_Witness ==
    \E t \in DOMAIN fs :
        /\ BrowserAsked(t)
        /\ fs[t].page = "<html>"
        /\ fs[t].pc = "returned"
        /\ fs[t].body = "<html>"

\* the outcome of the lightweight loop, read off the attempts it made
LoopOutcome(t) ==
    LET last == fs[t].outs[Len(fs[t].outs)]
    IN IF last.exc = "none" /\ last.status < 400
       THEN [kind |-> "response", status |-> last.status, exc |-> "none"]
       ELSE IF last.exc \in {"ValueError", "CloudflareException"}
       THEN [kind |-> "raise", status |-> 0, exc |-> last.exc]
       ELSE [kind |-> "none", status |-> 0, exc |-> "none"]

\* C16 as stated: when a fetch asks for the browser, the browser is
\* configured and fetch_with_browser gives no page (unavailable, failed or
\* timed out), the fetch ends with an error, never with a response.
C16_BrowserFailureIsError ==
    \A t \in DOMAIN fs :
        (BrowserAsked(t) /\ fs[t].page \in {"", "None"}
         /\ fs[t].pc \in {"returned", "raised"}) =>
            fs[t].result.kind # "response"

\* C16 amended: when fetch_with_browser gives no page, fetch_with_retry
\* signals no error for it and goes on with the lightweight loop; the fetch
\* ends only after at least one lightweight attempt and its outcome is that
\* of the loop: the response of the attempt that succeeded, else None.
C16_BrowserFailureFallsBack ==
    \A t \in DOMAIN fs :
        (BrowserAsked(t) /\ fs[t].page \in {"", "None"}) =>
            /\ fs[t].pc # "browser"
            /\ fs[t].pc \in {"returned", "raised"} =>
                  /\ Len(fs[t].outs) >= 1
                  /\ fs[t].result = LoopOutcome(t)
                  /\ fs[t].body # fs[t].page

\* the browser gave no page and the fetch returned the response of its
\* second lightweight attempt
C16_Witness ==
    \E t \in DOMAIN fs :
        /\ BrowserAsked(t)
        /\ fs[t].page = "None"
        /\ fs[t].pc = "returned"
        /\ Len(fs[t].outs) = 2
        /\ fs[t].result.kind = "response"

\* the pipeline of a package has ended on a failed primary fetch
C7_Witness ==
    \E i \in Positions :
        /\ task[i].primary = "none"
        /\ task[i].pc = "fetched"
        /\ task[i].package.error = "Failed to fetch package information"

StagesDue(package) ==
    IF package.github_url # "None" THEN LaterStages ELSE SubSeq(LaterStages, 1, 3)

\* C9: after a processed primary document no later stage sets error or ends
\* the pipeline early: when fetch_package_info returns, license, download
\* statistics and README were attempted, and hosting statistics exactly when
\* github_url is set; and the field of every failed stage holds its default.
C9_LaterStagesNeverAbort ==
    \A i \in Positions :
        task[i].parsed =>
            /\ task[i].package.error = "None"
            /\ task[i].pc = "fetched" =>
                  task[i].trace = <<"primary">> \o StagesDue(task[i].package)
            /\ "license" \in task[i].failed =>
                  task[i].package.license = "License not specified"
            /\ "downloads" \in task[i].failed => task[i].package.downloads = "{}"
            /\ "readme" \in task[i].failed =>
                  task[i].package.readme_content = "No README content available"
            /\ "github" \in task[i].failed => task[i].package.github_stats = EmptyStats

\* a pipeline that returned after all four later stages failed
C9_Witness ==
    \E i \in Positions :
        /\ task[i].parsed
        /\ task[i].pc = "fetched"
        /\ task[i].failed = {"license", "downloads", "readme", "github"}

\* C10: the stages of one package run in the order primary document,
\* license, download statistics, README, hosting statistics: the stages a
\* pipeline has run so far are always the first ones of that order.
C10_StagesInFixedOrder ==
    \A i \in Positions :
        /\ Len(task[i].trace) <= 5
        /\ \A k \in 1..Len(task[i].trace) :
              task[i].trace[k] =
                  <<"primary", "license", "downloads", "readme", "github">>[k]
        /\ task[i].pc \in {"license", "downloads", "readme", "github"} =>
              task[i].trace # <<>> /\ task[i].pc # task[i].trace[Len(task[i].trace)]

\* two pipelines under way at once: one past its hosting-statistics stage,
\* the other between its stages
C10_Witness ==
    \E i, j \in Positions :
        /\ i # j
        /\ Len(task[i].trace) = 5
        /\ task[i].pc = "fetched"
        /\ task[j].pc = "downloads"
        /\ task[j].trace = <<"primary", "license">>

\* C11: at every moment of a bulk run at most MAX_WORKERS (5) packages are
\* inside _analyze_single_package, each of them on a pool thread of its own:
\* no pool thread runs two packages at once.
C11_AtMostMaxWorkersRunning ==
    /\ Cardinality(Running) <= 5
    /\ \A i \in Running : task[i].worker \in 1..5
    /\ \A i, j \in Running : i # j => task[i].worker # task[j].worker

\* the pool is full: five packages are being analysed, the sixth of them on
\* a thread that had to finish another package first
C11_Witness ==
    /\ Cardinality(Running) = 5
    /\ \E i, j \in Positions :
          i < j /\ task[i].pc = "done" /\ j \in Running /\ task[j].worker < j

\* the items whose turn of the collection loop has begun
Collected == {i \in Positions : task[i].collected}

\* C12: in a bulk run over N packages the completed count of the progress
\* bar is the number of items the collection loop has handled, whether their
\* records carry an error or not (it advances by one per item); it never
\* exceeds N and is N when bulk_analyze returns.
C12_ProgressCountsEveryItem ==
    /\ progress <= Len(package_names)
    /\ bulkPc \in {"submit", "collect", "returned"} =>
          progress = Cardinality(Collected)
    /\ bulkPc = "returned" => progress = Len(package_names)

\* a returned run of two packages, one record with error and one without
C12_Witness ==
    /\ bulkPc = "returned"
    /\ progress = 2
    /\ \E i, j \in Positions :
          task[i].package.error # "None" /\ task[j].package.error = "None"

\* the project_urls of the document, an absent or null one read as empty
GivenLinks == pypi.info.project_urls.items

\* the statements of from_pypi_json up to project_urls have run
LinksRead == pypi.pc \in {"requires_dist", "github_url", "parsed"}

\* C17 as stated: once project_urls has been read from the document it has
\* no key whose value is None or the empty string, and it holds exactly the
\* other entries of the document, unchanged and in their order.
C17_NoNullOrEmptyLink ==
    LinksRead =>
        /\ \A i \in 1..Len(pypi.project_urls) :
              pypi.project_urls[i].value # PyNone /\ pypi.project_urls[i].value # <<>>
        /\ pypi.project_urls =
              SelectSeq(GivenLinks, LAMBDA e : e.value # PyNone /\ e.value # <<>>)

\* the least element of a non-empty set of numbers
Least(S) == CHOOSE n \in S : \A m \in S : n <= m

\* the value the claimed derivation picks: the listed keys in their order,
\* each compared with the keys of `links` without regard to case, then every
\* value in turn
ClaimedVcsChoice(links) ==
    LET pointing(n) == {i \in 1..Len(links) :
                          /\ str_lower(links[i].key) = str_lower(github_keys[n])
                          /\ links[i].value # PyNone
                          /\ is_github(links[i].value)}
        named == {n \in 1..Len(github_keys) : pointing(n) # {}}
        hosted == {i \in 1..Len(links) :
                     links[i].value # PyNone /\ is_github(links[i].value)}
    IN IF named # {} THEN links[Least(pointing(Least(named)))].value
       ELSE IF hosted # {} THEN links[Least(hosted)].value
       ELSE PyNone

\* C18 as stated: github_url is the value of the first key of the priority
\* list (GitHub, Source, Source Code, Repository, Code, Homepage) that some
\* key of project_urls equals without regard to case and whose value points
\* at github.com; failing that the first value that points at github.com;
\* failing that None (the chosen value without its query and fragment).
C18_PriorityKeysCaseInsensitive ==
    pypi.pc = "parsed" =>
        pypi.github_url =
            IF ClaimedVcsChoice(pypi.project_urls) = PyNone THEN PyNone
            ELSE strip_url(ClaimedVcsChoice(pypi.project_urls))

\* s with every space removed and every double quote made a single one
Unspaced(s) ==
    MapSeq(LAMBDA c : IF c = "\"" THEN "'" ELSE c, SelectSeq(s, LAMBDA c : c # " "))

\* the requirement has a marker after ';' that mentions the extra dev, test
\* or docs, however the marker is quoted, spaced and capitalised
MentionsDevExtra(req) ==
    /\ str_in(<<";">>, req)
    /\ \E pat \in {<<"e", "x", "t", "r", "a", "=", "=", "'", "d", "e", "v", "'">>,
                    <<"e", "x", "t", "r", "a", "=", "=", "'", "t", "e", "s", "t", "'">>,
                    <<"e", "x", "t", "r", "a", "=", "=", "'", "d", "o", "c", "s", "'">>} :
          str_in(pat, Unspaced(str_lower(str_after(req, ";"))))

\* the non-empty requirement strings of the document, in their order
ListedRequirements == SelectSeq(pypi.info.requires_dist.items, LAMBDA req : req # <<>>)

\* the statements of from_pypi_json up to the dependencies have run
RequirementsRead == pypi.pc \in {"github_url", "parsed"}

\* C19 as stated: every non-empty requirement string of the document is,
\* in input order and once per occurrence, in dev_dependencies when its
\* marker mentions a dev, test or docs extra and in dependencies otherwise
\* (dependencies holding the sentinel alone when nothing else is in it).
C19_RequirementsClassified ==
    RequirementsRead =>
        LET dev == MapSeq(str_strip, SelectSeq(ListedRequirements, MentionsDevExtra))
            required == MapSeq(str_strip,
                SelectSeq(ListedRequirements, LAMBDA req : ~MentionsDevExtra(req)))
        IN /\ pypi.dev_dependencies = dev
           /\ pypi.dependencies =
                 IF required = <<>>
                 THEN <<<<"N", "o", " ", "d", "e", "p", "e", "n", "d", "e", "n", "c", "i", "e", "s", " ", "l", "i", "s", "t", "e", "d">>>>
                 ELSE required

\* C20: before the dependencies of the document are read dependencies is
\* the empty list; afterwards it never is: when every listed requirement
\* went to dev_dependencies, or none was listed, it is the one-element list
\* of the sentinel "No dependencies listed", and otherwise it holds the
\* remaining requirements and no sentinel.
C20_DependenciesNeverEmpty ==
    LET sentinel == <<"N", "o", " ", "d", "e", "p", "e", "n", "d", "e", "n", "c", "i", "e", "s", " ", "l", "i", "s", "t", "e", "d">>
    IN /\ ~RequirementsRead => pypi.dependencies = <<>>
       /\ RequirementsRead =>
             /\ pypi.dependencies # <<>>
             /\ Len(pypi.dev_dependencies) = Len(ListedRequirements) =>
                   pypi.dependencies = <<sentinel>>
             /\ Len(pypi.dev_dependencies) < Len(ListedRequirements) =>
                   /\ Len(pypi.dependencies) =
                         Len(ListedRequirements) - Len(pypi.dev_dependencies)
                   /\ \A i \in 1..Len(pypi.dependencies) :
                         pypi.dependencies[i] # sentinel

\* a document whose two requirements are both development ones: the
\* sentinel stands alone in dependencies
C20_Witness ==
    /\ pypi.pc = "parsed"
    /\ Len(pypi.info.requires_dist.items) = 2
    /\ Len(pypi.dev_dependencies) = 2
    /\ Len(pypi.dependencies) = 1

\* the orders in which a document can list the release keys of one set
Orderings(releases) ==
    {[i \in 1..Len(releases) |-> releases[f[i]]] :
        f \in {g \in [1..Len(releases) -> 1..Len(releases)] : Injective(g)}}

\* C21 as stated: the release keys are sorted with one comparator for the
\* whole list, the semantic one exactly when every key parses; the result
\* holds the same keys, is strictly descending under the comparator used, and
\* is the same sequence in whatever order the document lists the release set.
C21_OneComparatorStrictlyDescending ==
    pypi.pc = "sorted" =>
        /\ pypi.used = (IF all_parse(pypi.releases) THEN "semantic" ELSE "fallback")
        /\ Len(pypi.versions) = Len(pypi.releases)
        /\ \A i \in 1..Len(pypi.releases) :
              \E j \in 1..Len(pypi.versions) : pypi.versions[j] = pypi.releases[i]
        /\ \A i \in 1..(Len(pypi.versions) - 1) :
              key_lt(pypi.used = "semantic", pypi.versions[i + 1], pypi.versions[i])
        /\ \A other \in Orderings(pypi.releases) :
              extract_all_versions(other) = pypi.versions

\* the link names owner and repository, as the API client needs them
NamesRepository == hosting.github_url = RepositoryUrl

\* C22 as stated: with a client configured the stage uses the API first and
\* returns its result when the API answers; whenever the API does not answer,
\* or no client is configured, the stage scrapes the hosting page.
C22_ApiFirstElseScrape ==
    hosting.pc = "returned" =>
        /\ github_client => hosting.log # <<>> /\ hosting.log[1] = "api"
        /\ github_client /\ hosting.api = "ok" =>
              hosting.result = ApiStats /\ hosting.log = <<"api">>
        /\ ~github_client \/ hosting.api = "fail" =>
              hosting.log # <<>> /\ hosting.log[Len(hosting.log)] = "scrape"

\* C22, amended: for a link that names owner and repository the stage asks
\* the API first when a client is configured, returns the API's result when
\* it answers and scrapes the page when it fails; without a client the stage
\* scrapes at once; with a client and a link that names no repository the
\* stage returns empty statistics and neither asks the API nor scrapes.
C22_ApiFirstForRepositoryLinks ==
    /\ \A k \in 1..Len(hosting.log) :
          hosting.log[k] = "scrape" /\ github_client =>
              k = 2 /\ hosting.log[1] = "api" /\ hosting.api = "fail"
    /\ hosting.pc = "returned" =>
        /\ github_client /\ NamesRepository /\ hosting.api = "ok" =>
              hosting.result = ApiStats /\ hosting.log = <<"api">>
        /\ github_client /\ NamesRepository /\ hosting.api = "fail" =>
              hosting.log = <<"api", "scrape">>
        /\ ~github_client => hosting.log = <<"scrape">>
        /\ github_client /\ ~NamesRepository =>
              hosting.log = <<>> /\ hosting.result = EmptyStats

\* the API failed and the scrape of the page gave the star count
C22_Witness ==
    /\ hosting.pc = "returned"
    /\ github_client
    /\ hosting.log = <<"api", "scrape">>
    /\ hosting.result.stars = Holds(1234)

\* the text of a selected element is a count
Numeric(text) == text # PyNone /\ str_isdigit(remove_commas(str_strip(text)))

\* C23 as stated: when the stage has scraped a page, a count whose text is
\* no number after the thousand separators are removed is left out, and every
\* other metric found on the page is in the statistics the stage returns.
C23_OtherMetricsKept ==
    /\ hosting.pc = "returned"
    /\ hosting.log # <<>> /\ hosting.log[Len(hosting.log)] = "scrape"
    /\ hosting.response.kind = "response"
    =>  /\ hosting.result.stars.set = Numeric(hosting.page.stars)
        /\ hosting.result.forks.set = Numeric(hosting.page.forks)
        /\ hosting.result.language.set = (hosting.page.language # PyNone)

\* fetch_package_info has handed the record of item i to its caller
HandedOver(i) == task[i].pc \in {"fetched", "done", "analyzed"}

\* the caller has passed the record of item i on: the future is done, or
\* main() goes on to write the report
PassedOn(i) == task[i].pc \in {"done", "analyzed"}

\* in this step the except clause of _analyze_single_package builds a new
\* record for item i; the record that was handed over is dropped, not written
FreshRecord(i) == task[i].pc = "fetched" /\ task'[i].fault # "none"

\* C24 as stated: once fetch_package_info has handed a record to its caller,
\* no step writes a field of it, in the bulk path and in the single path.
C24_NoWriteAfterHandOver ==
    [][\A i \in Positions :
          HandedOver(i) /\ ~FreshRecord(i) => task'[i].package = task[i].package]_vars

\* C24, amended: once fetch_package_info has handed a record to its caller,
\* the only field written again is source_analysis, which the caller assigns
\* at most once, when error is unset and the analysis is enabled, before it
\* passes the record on; after that no field is written.
C24_OnlySourceAnalysisWritten ==
    [][\A i \in Positions :
          HandedOver(i) /\ ~FreshRecord(i) =>
              /\ [task'[i].package EXCEPT !.source_analysis = "{}"] =
                    [task[i].package EXCEPT !.source_analysis = "{}"]
              /\ task'[i].package # task[i].package =>
                    /\ task[i].pc = "fetched"
                    /\ task[i].package.source_analysis = "{}"
                    /\ task[i].package.error = "None"
                    /\ include_source_analysis
              /\ PassedOn(i) => task'[i].package = task[i].package]_vars

\* a caller has assigned source_analysis to the record handed to it, and
\* passed it on with the fields the aggregator had set
C24_Witness ==
    \E i \in Positions :
        /\ PassedOn(i)
        /\ task[i].package.source_analysis = "line counts"
        /\ task[i].package.readme_content = "readme text"

\* C26: source_analysis is assigned only in a step taken after the item's
\* fetch_package_info has returned, for a record whose error is unset and in
\* a run with the analysis enabled; no record holds both an error set by its
\* aggregation and a source analysis.
C26_AnalysisOnlyForSoundRecords ==
    [][\A i \in Positions :
          task'[i].package.source_analysis # task[i].package.source_analysis =>
              /\ task[i].pc = "fetched"
              /\ task[i].package.error = "None"
              /\ include_source_analysis]_vars

\* a worker of a bulk run with the analysis enabled left a failed record
\* without analysis
C26_Witness ==
    /\ include_source_analysis
    /\ bulkPc = "worker"
    /\ \E i \in Positions :
          /\ task[i].pc = "done"
          /\ task[i].fault = "none"
          /\ task[i].package.error # "None"
          /\ task[i].package.source_analysis = "{}"

\* C25 as stated: after a bulk run was interrupted no queued item is taken
\* by a pool thread, so the items waiting in the queue are never aggregated.
C25_NoDispatchAfterInterrupt ==
    [][bulkPc = "interrupted" =>
          \A i \in Positions : task[i].pc = "queued" => task'[i].pc = "queued"]_vars

\* C27 as stated: a report that could not be written does not end the bulk
\* run: the collection loop is never left through an exception of
\* save_report, so every record is still collected, counted and returned.
C27_ReportFailureDoesNotStopRun ==
    /\ bulkPc # "raised_save_report"
    /\ bulkPc \notin {"submit", "collect", "returned"} =>
          Len(results) = Len(package_names) /\ progress = Len(package_names)

\* C28 as stated: the page fetch_with_browser returns to a pool thread is
\* the page of the URL this thread asked for, and the scraper's driver is
\* created at most once.
C28_OwnPageOneDriver ==
    /\ driver.created <= 1
    /\ \A t \in PoolFetchers :
          driver.calls[t].pc = "returned" /\ driver.calls[t].page # PyNone =>
              driver.calls[t].page = driver.calls[t].url

\* C29 as stated: no exception leaves fetch_with_retry, whatever the method
\* string and whatever the session raises during an attempt: a fetch that
\* has ended has returned a response or None.
C29_FetchNeverRaises ==
    \A t \in Fetchers :
        /\ fs[t].pc # "raised"
        /\ fs[t].result.kind # "raise"

\* C30 as stated: one call of fetch_with_retry sends at most REQUEST_RETRIES
\* HTTP requests in total, with cloudscraper's session and with the plain
\* session whose transport adapter retries by itself.
C30_AtMostMaxAttemptsRequests ==
    \A t \in Fetchers : fs[t].requests <= REQUEST_RETRIES

====
